---- MODULE Spec2Model ----
(***************************************************************************)
(* Model of the segment-processing pipeline of LogAnalysis:                *)
(*   logginganalysis/extraction/extractor.py  (LogExtractor)               *)
(*   logginganalysis/utils/rate_limiter.py    (TokenBucket, SlidingWindow, *)
(*                                             RateLimiter)                *)
(* Python indexes are kept 0-based (index, chunk_index); TLA+ sequences    *)
(* are 1-based, so chunks.chunks[index] is chunks[index + 1].              *)
(* Time is counted in whole time units; the token count of the bucket is   *)
(* kept multiplied by SecondsPerMinute so that the continuous refill       *)
(* (elapsed / 60) * rate stays exact in integer arithmetic.                *)
(***************************************************************************)
EXTENDS Integers, Sequences, FiniteSets, TLC

\* ---------------------------------------------------------------- bounds
MaxChunks == 2
MaxConc == 2
MaxTime == 60
TickStep == 30
RpmChoice == 2
TpmChoice == 1
BurstChoice == 1

\* bounds of the specifications of the limiter on its own
ClockStep == 20
MaxClock == 80
MaxLog == 4
MaxCallers == 2

\* bounds of the specification of the chunker
MaxText == 5
MaxSize == 3

\* ------------------------------------------------------ program constants
SecondsPerMinute == 60
WindowSeconds == 60
ExtractTokens == 1
IntegrateTokens == 2

VARIABLES
    chunks,           \* chunks.chunks : sequence of [id, size]
    max_concurrency,  \* argument of extract_from_chunks
    progress_callback,\* TRUE iff self.progress_callback is set
    limiter,          \* self.rate_limiter : configuration record
    batch,            \* position of extract_from_chunks
    pc,               \* position of each extract_with_semaphore task
    semaphore,        \* asyncio.Semaphore._value
    rpmWait,          \* per task: position of wait_for_token
    tpmWait,          \* per task: position of wait_for_slot
    calls,            \* per task: number of chain.ainvoke calls made
    ref,              \* per task: object the chain result refers to (-1: none)
    heap,             \* result objects, mutated in place by the extractor
    ret,              \* per task: value returned by extract_with_semaphore
    doneOrder,        \* indexes in the order the tasks completed
    events,           \* what the progress callback has received
    outcome,          \* what extract_from_chunks returned or raised
    tokens,           \* TokenBucket.tokens * SecondsPerMinute
    last_update,      \* TokenBucket.last_update
    requests,         \* SlidingWindow.requests
    now,              \* time.time()
    log,              \* calls made on the limiter by code other than the extractor
    callers,          \* per such caller: position in wait_for_permission
    chunking,         \* LogChunker: its arguments, position and result
    integration       \* LogIntegrator: its own limiter and position

vars == <<chunks, max_concurrency, progress_callback, limiter, batch, pc,
          semaphore, rpmWait, tpmWait, calls, ref, heap, ret, doneOrder,
          events, outcome, tokens, last_update, requests, now, log, callers,
          chunking, integration>>

inputVars == <<chunks, max_concurrency, progress_callback, limiter>>
limiterVars == <<tokens, last_update, requests>>
callVars == <<log, callers>>
stageVars == <<chunking, integration>>

\* ------------------------------------------------------------ data model
Null == [cls |-> "Null"]

\* no LogChunker has been built, no LogIntegrator has been built
NoChunking == [pc |-> "none"]
NoIntegration == [pc |-> "none"]

\* a task that has not returned yet
NoReturn == [index |-> -1, kind |-> "none", ref |-> -1, error |-> Null]

\* LogChunk ids and content lengths of the i-th chunk (0-based)
ChunkIdOf(i) ==
    <<"chunk-1", "chunk-2", "chunk-3", "chunk-4", "chunk-5", "chunk-6">>[i + 1]
ChunkSizeOf(i) == 10 + i

MakeChunks(n) == [k \in 1..n |-> [id |-> ChunkIdOf(k - 1), size |-> ChunkSizeOf(k - 1)]]

Indexes == 0..(Len(chunks) - 1)

\* identifiers the chain may have put into its own result
ChainIds == {"", "wrong-id", ChunkIdOf(0), ChunkIdOf(1)}

\* the fact lists and summary the chain may have produced
NoFacts ==
    [exceptions |-> <<>>, libraries |-> <<>>, problematic_behaviors |-> <<>>,
     summary |-> "Summary"]

SomeFacts ==
    [exceptions |-> <<"e1">>, libraries |-> <<>>,
     problematic_behaviors |-> <<"b1", "b2">>, summary |-> "Summary"]

Payloads == {NoFacts, SomeFacts}

SentinelSummary == "AI returned empty result"

\* ChunkExtractionResult(chunk_id=..., exceptions=[], libraries=[],
\*                       problematic_behaviors=[], summary=sentinel)
\* variant: the substitute result is not empty
EmptyResultMutant(cid) ==
    [cls |-> "ChunkExtractionResult", chunk_id |-> cid, exceptions |-> <<"e1">>,
     libraries |-> <<>>, problematic_behaviors |-> <<>>,
     summary |-> SentinelSummary, fromChain |-> FALSE]

EmptyResult(cid) ==
    [cls |-> "ChunkExtractionResult", chunk_id |-> cid, exceptions |-> <<>>,
     libraries |-> <<>>, problematic_behaviors |-> <<>>,
     summary |-> SentinelSummary, fromChain |-> FALSE]

\* an object built by the chain: a ChunkExtractionResult, or an object of
\* another class that has the same attributes
ChainObject(cls, cid, p) ==
    [cls |-> cls, chunk_id |-> cid, exceptions |-> p.exceptions,
     libraries |-> p.libraries, problematic_behaviors |-> p.problematic_behaviors,
     summary |-> p.summary, fromChain |-> TRUE]

\* what the chain may build: <<class, payload>>
ChainBuilds == ({"ChunkExtractionResult"} \X Payloads) \cup {<<"Other", SomeFacts>>}

\* rate limiter configurations (rpm_limit / tpm_limit 0 stands for None)
NoLimiter == [present |-> FALSE, enabled |-> FALSE, rpm_limit |-> 0,
              tpm_limit |-> 0, burst_size |-> BurstChoice]

LimiterConfig(en, rpm, tpm) ==
    [present |-> TRUE, enabled |-> en, rpm_limit |-> rpm, tpm_limit |-> tpm,
     burst_size |-> BurstChoice]

LimiterConfigs ==
    { NoLimiter,
      LimiterConfig(FALSE, RpmChoice, TpmChoice),
      LimiterConfig(TRUE, RpmChoice, 0),
      LimiterConfig(TRUE, 0, TpmChoice),
      LimiterConfig(TRUE, RpmChoice, TpmChoice) }

\* RateLimiter.__init__: which sub-limiters exist
\* variant: the token bucket is built whether the limiter is enabled or not
HasRpmMutant(l) == l.present /\ l.rpm_limit # 0

HasRpm(l) == l.present /\ l.enabled /\ l.rpm_limit # 0
HasTpm(l) == l.present /\ l.enabled /\ l.tpm_limit # 0

\* RateLimiter.wait_for_permission: "if tasks: await asyncio.gather(*tasks)"
MustWait(l) == HasRpm(l) \/ HasTpm(l)


\* ---------------------------------------------------------- rate limiter
Min(a, b) == IF a <= b THEN a ELSE b

\* variant: the refill is not capped at the capacity
RefilledMutant(tk, elapsed, rate, burst) == tk + elapsed * rate

\* TokenBucket.acquire, the refill: min(burst, tokens + (elapsed / 60) * rate)
Refilled(tk, elapsed, rate, burst) ==
    Min(burst * SecondsPerMinute, tk + elapsed * rate)

\* variant: the last token of the bucket cannot be taken
BucketAdmitsMutant(tk, n) == tk > n * SecondsPerMinute

\* TokenBucket.acquire, the check: self.tokens >= tokens
BucketAdmits(tk, n) == tk >= n * SecondsPerMinute

\* TokenBucket.acquire, the token count it leaves behind
\* variant: the check and the deduction are not one step, the caller is
\* admitted on a count that is not updated
BucketAfterMutant(tk, n) == tk

BucketAfter(tk, n) == IF BucketAdmits(tk, n) THEN tk - n * SecondsPerMinute ELSE tk

\* variant: nothing is ever evicted
EvictedMutant(reqs, t, window) == reqs

\* SlidingWindow.acquire, the eviction loop:
\*   while self.requests and self.requests[0] <= now - self.window: popleft()
RECURSIVE Evicted(_, _, _)
Evicted(reqs, t, window) ==
    IF reqs # <<>> /\ Head(reqs) <= t - window
    THEN Evicted(Tail(reqs), t, window)
    ELSE reqs

\* variant: off by one, the queue may grow to limit + 1 entries
WindowAdmitsMutant(reqs, limit) == Len(reqs) <= limit

\* SlidingWindow.acquire, the check: len(self.requests) < self.limit
WindowAdmits(reqs, limit) == Len(reqs) < limit

\* SlidingWindow.acquire, the queue it leaves behind
\* variant: the timestamp is appended before the check
WindowAfterMutant(reqs, t, limit) == Append(reqs, t)

WindowAfter(reqs, t, limit) == IF WindowAdmits(reqs, limit) THEN Append(reqs, t) ELSE reqs

\* ------------------------------------------------------- progress events
\* percentages are exact fractions num / den
Percent(num, den) == IF den > 0 THEN [num |-> num * 100, den |-> den]
                                ELSE [num |-> 0, den |-> 1]

\* variant: the percentage counts the chunk being started as done
ProcessingEventMutant(chunk, chunk_index, total_chunks) ==
    [step |-> "extraction", chunk_id |-> chunk.id, chunk_index |-> chunk_index + 1,
     total_chunks |-> total_chunks,
     progress_percentage |-> Percent(chunk_index + 1, total_chunks),
     status |-> "processing", extra |-> <<>>]

ProcessingEvent(chunk, chunk_index, total_chunks) ==
    [step |-> "extraction", chunk_id |-> chunk.id, chunk_index |-> chunk_index + 1,
     total_chunks |-> total_chunks,
     progress_percentage |-> Percent(chunk_index, total_chunks),
     status |-> "processing", extra |-> <<>>]

\* variant: the percentage of the chunks before this one
CompletedEventMutant(chunk, chunk_index, total_chunks, result) ==
    [step |-> "extraction", chunk_id |-> chunk.id, chunk_index |-> chunk_index + 1,
     total_chunks |-> total_chunks,
     progress_percentage |-> Percent(chunk_index, total_chunks),
     status |-> "completed",
     extra |-> <<Len(result.exceptions), Len(result.problematic_behaviors),
                 Len(result.libraries)>>]

CompletedEvent(chunk, chunk_index, total_chunks, result) ==
    [step |-> "extraction", chunk_id |-> chunk.id, chunk_index |-> chunk_index + 1,
     total_chunks |-> total_chunks,
     progress_percentage |-> Percent(chunk_index + 1, total_chunks),
     status |-> "completed",
     extra |-> <<Len(result.exceptions), Len(result.problematic_behaviors),
                 Len(result.libraries)>>]

FailedEvent(chunk, chunk_index, total_chunks, cause) ==
    [step |-> "extraction", chunk_id |-> chunk.id, chunk_index |-> chunk_index + 1,
     total_chunks |-> total_chunks,
     progress_percentage |-> Percent(chunk_index + 1, total_chunks),
     status |-> "failed", extra |-> <<cause>>]

\* self.progress_callback(event), guarded by "if self.progress_callback"
Emit(evs, e) == IF progress_callback THEN Append(evs, e) ELSE evs

\* ------------------------------------------------------------------ Init
Init ==
    /\ \E n \in 0..MaxChunks : chunks = MakeChunks(n)
    /\ max_concurrency \in 0..MaxConc
    /\ progress_callback \in BOOLEAN
    /\ limiter \in LimiterConfigs
    /\ batch = "idle"
    /\ pc = [i \in Indexes |-> "pending"]
    /\ semaphore = 0
    /\ rpmWait = [i \in Indexes |-> "idle"]
    /\ tpmWait = [i \in Indexes |-> "idle"]
    /\ calls = [i \in Indexes |-> 0]
    /\ ref = [i \in Indexes |-> -1]
    /\ heap = [i \in Indexes |-> Null]
    /\ ret = [i \in Indexes |-> NoReturn]
    /\ doneOrder = <<>>
    /\ events = <<>>
    /\ outcome = [kind |-> "none"]
    /\ tokens = limiter.burst_size * SecondsPerMinute
    /\ last_update = 0
    /\ requests = <<>>
    /\ now = 0
    /\ log = <<>>
    /\ chunking = NoChunking
    /\ integration = NoIntegration
    /\ callers = <<>>


\* ------------------------------------------------- extract_from_chunks
\* "if not chunks.chunks"
IsEmpty(cs) == Len(cs) = 0

\* "return []"
\* variant: an empty chunk set is reported as an error
EarlyReturnMutant ==
    [kind |-> "raised", cls |-> "ExtractionError", count |-> 0, details |-> <<>>]

EarlyReturn == [kind |-> "returned", value |-> <<>>]

\* the call of extract_from_chunks: the early return for an empty chunk set,
\* or the semaphore and one task per chunk
StartBatch ==
    /\ batch = "idle"
    /\ IF IsEmpty(chunks)
       THEN /\ batch' = "returned"
            /\ outcome' = EarlyReturn
            /\ UNCHANGED semaphore
       ELSE /\ batch' = "running"
            /\ semaphore' = max_concurrency
            /\ UNCHANGED outcome
    /\ UNCHANGED <<inputVars, stageVars, callVars, limiterVars, pc, rpmWait, tpmWait, calls, ref,
                   heap, ret, doneOrder, events, now>>

\* extract_with_semaphore up to its first suspension: "async with semaphore",
\* then extract_from_chunk emits the "processing" event and calls
\* rate_limiter.wait_for_permission(tokens=1), which gathers one waiter per
\* configured sub-limiter and suspends; with no sub-limiter (no limiter, a
\* disabled one, no limit set) nothing suspends before chain.ainvoke is called
\* variant: off by one, a slot is handed out when none is left
SlotFreeMutant(sem) == sem >= 0

SlotFree(sem) == sem > 0

Begin(i) ==
    /\ batch = "running"
    /\ pc[i] = "pending"
    /\ SlotFree(semaphore)
    /\ semaphore' = semaphore - 1
    /\ events' = Emit(events, ProcessingEvent(chunks[i + 1], i, Len(chunks)))
    /\ rpmWait' = [rpmWait EXCEPT ![i] = IF HasRpm(limiter) THEN "try" ELSE "done"]
    /\ tpmWait' = [tpmWait EXCEPT ![i] = IF HasTpm(limiter) THEN "try" ELSE "done"]
    /\ IF MustWait(limiter)
       THEN /\ pc' = [pc EXCEPT ![i] = "waiting"]
            /\ UNCHANGED calls
       ELSE /\ pc' = [pc EXCEPT ![i] = "inflight"]
            /\ calls' = [calls EXCEPT ![i] = @ + 1]
    /\ UNCHANGED <<inputVars, stageVars, callVars, limiterVars, batch, ref, heap, ret, doneOrder,
                   outcome, now>>

\* TokenBucket.wait_for_token: one attempt of acquire(tokens); on denial the
\* waiter sleeps max(0.1, min(wait_time, 1)) and tries again
WaitForToken(i) ==
    /\ pc[i] = "waiting"
    /\ rpmWait[i] = "try"
    /\ LET tk == Refilled(tokens, now - last_update, limiter.rpm_limit,
                          limiter.burst_size)
       IN /\ tokens' = BucketAfter(tk, ExtractTokens)
          /\ last_update' = now
          /\ rpmWait' = [rpmWait EXCEPT ![i] =
                            IF BucketAdmits(tk, ExtractTokens) THEN "done" ELSE "sleep"]
    /\ UNCHANGED <<inputVars, stageVars, callVars, requests, batch, pc, semaphore, tpmWait, calls,
                   ref, heap, ret, doneOrder, events, outcome, now>>

\* SlidingWindow.wait_for_slot: one attempt of acquire(); on denial the
\* waiter sleeps and tries again
WaitForSlot(i) ==
    /\ pc[i] = "waiting"
    /\ tpmWait[i] = "try"
    /\ LET reqs == Evicted(requests, now, WindowSeconds)
       IN /\ requests' = WindowAfter(reqs, now, limiter.tpm_limit)
          /\ tpmWait' = [tpmWait EXCEPT ![i] =
                            IF WindowAdmits(reqs, limiter.tpm_limit) THEN "done" ELSE "sleep"]
    /\ UNCHANGED <<inputVars, stageVars, callVars, tokens, last_update, batch, pc, semaphore, rpmWait,
                   calls, ref, heap, ret, doneOrder, events, outcome, now>>

\* time passes; every asyncio.sleep of a waiter (at most 1 time unit) is over.
\* The clock is read by the sub-limiters only (time.time() in acquire), so it
\* is advanced only when there is one to read it.
Woken(w) == [i \in DOMAIN w |-> IF w[i] = "sleep" THEN "try" ELSE w[i]]

Tick ==
    /\ MustWait(limiter)
    /\ now + TickStep <= MaxTime
    /\ now' = now + TickStep
    /\ rpmWait' = Woken(rpmWait)
    /\ tpmWait' = Woken(tpmWait)
    /\ UNCHANGED <<inputVars, stageVars, callVars, limiterVars, batch, pc, semaphore, calls, ref,
                   heap, ret, doneOrder, events, outcome>>

\* wait_for_permission has returned (asyncio.gather of the waiters is done):
\* extract_from_chunk calls self.chain.ainvoke
\* variant: the gather is over as soon as one of the two waiters is done
PermissionGrantedMutant(i) == rpmWait[i] = "done" \/ tpmWait[i] = "done"

PermissionGranted(i) == rpmWait[i] = "done" /\ tpmWait[i] = "done"

Invoke(i) ==
    /\ pc[i] = "waiting"
    /\ PermissionGranted(i)
    /\ pc' = [pc EXCEPT ![i] = "inflight"]
    /\ calls' = [calls EXCEPT ![i] = @ + 1]
    /\ UNCHANGED <<inputVars, stageVars, callVars, limiterVars, batch, semaphore, rpmWait, tpmWait,
                   ref, heap, ret, doneOrder, events, outcome, now>>


\* ------------------------------------------- extract_from_chunk, the tail
\* ExtractionError(f"... {chunk.id} ...: {e}",
\*                 details={"chunk_id": chunk.id, "chunk_size": len(chunk.content)})
\* variant: the details carry the length of the id, not of the content
ExtractionErrorMutant(chunk, cause) ==
    [cls |-> "ExtractionError", chunk_id |-> chunk.id, chunk_size |-> Len(chunk.id),
     cause |-> cause]

ExtractionError(chunk, cause) ==
    [cls |-> "ExtractionError", chunk_id |-> chunk.id, chunk_size |-> chunk.size,
     cause |-> cause]

\* str(e) of LoggingAnalysisError: message and details
StrOf(e) == <<"extraction failed", e.chunk_id, e.cause, e.chunk_size>>

\* "return (index, result)" / "return (index, e)": the tag is the index the
\* task was launched with; completed is the number of tasks that finished
\* before this one
\* variant: the tag is the completion position
TagOfMutant(index, completed) == completed

TagOf(index, completed) == index

\* "result.chunk_id = chunk.id"
\* variant: the id is filled in only when the chain left it empty
OverwrittenMutant(obj, cid) ==
    IF obj.chunk_id = "" THEN [obj EXCEPT !.chunk_id = cid] ELSE obj

Overwritten(obj, cid) == [obj EXCEPT !.chunk_id = cid]

\* the task states after the task at index i failed: asyncio.gather lets the
\* sibling tasks run on
\* variant: a failure cancels the siblings that have not started
AfterFailureMutant(p, i) ==
    [j \in DOMAIN p |-> IF j = i \/ p[j] = "pending" THEN "failed" ELSE p[j]]

AfterFailure(p, i) == [p EXCEPT ![i] = "failed"]

\* the end of "async with semaphore": the slot is given back, whether the
\* block returned (index, result) or (index, e)
\* variant: the slot is kept
ReleasedMutant(sem) == sem

Released(sem) == sem + 1

\* lines 136-165: the result object r (already in heap h) gets the chunk's
\* id, the "completed" event is emitted, and extract_with_semaphore returns
\* (index, result) and releases the semaphore
Succeed(i, r, h) ==
    LET chunk == chunks[i + 1]
        h2 == [h EXCEPT ![r] = Overwritten(h[r], chunk.id)]
    IN /\ heap' = h2
       /\ ref' = [ref EXCEPT ![i] = r]
       /\ events' = Emit(events, CompletedEvent(chunk, i, Len(chunks), h2[r]))
       /\ ret' = [ret EXCEPT ![i] = [index |-> TagOf(i, Len(doneOrder)),
                                     kind |-> "result", ref |-> r, error |-> Null]]
       /\ pc' = [pc EXCEPT ![i] = "completed"]
       /\ semaphore' = Released(semaphore)
       /\ doneOrder' = Append(doneOrder, i)
       /\ UNCHANGED <<inputVars, stageVars, callVars, limiterVars, batch, rpmWait, tpmWait, calls,
                      outcome, now>>

\* lines 167-192 and 228-229: the "failed" event is emitted, ExtractionError
\* is raised, extract_with_semaphore returns (index, e) and releases the
\* semaphore
Fail(i, cause) ==
    LET chunk == chunks[i + 1]
    IN /\ events' = Emit(events, FailedEvent(chunk, i, Len(chunks), cause))
       /\ ret' = [ret EXCEPT ![i] = [index |-> TagOf(i, Len(doneOrder)),
                                     kind |-> "error", ref |-> -1,
                                     error |-> ExtractionError(chunk, cause)]]
       /\ pc' = AfterFailure(pc, i)
       /\ semaphore' = Released(semaphore)
       /\ doneOrder' = Append(doneOrder, i)
       /\ UNCHANGED <<inputVars, stageVars, callVars, limiterVars, batch, rpmWait, tpmWait, calls,
                      ref, heap, outcome, now>>

Causes == {"LLM error"}

\* chain.ainvoke raises
ChainRaises(i) ==
    /\ pc[i] = "inflight"
    /\ \E c \in Causes : Fail(i, c)

\* chain.ainvoke returns None: the extractor builds the empty result itself
ChainReturnsNone(i) ==
    /\ pc[i] = "inflight"
    /\ Succeed(i, i, [heap EXCEPT ![i] = EmptyResult(chunks[i + 1].id)])

\* chain.ainvoke returns a freshly built object that has the attributes of a
\* result: a ChunkExtractionResult or an object of another class
ChainReturnsObject(i) ==
    /\ pc[i] = "inflight"
    /\ \E b \in ChainBuilds, cid \in ChainIds :
          Succeed(i, i, [heap EXCEPT ![i] = ChainObject(b[1], cid, b[2])])

\* chain.ainvoke returns an object it has returned before for another chunk
ChainReturnsSame(i) ==
    /\ pc[i] = "inflight"
    /\ \E j \in Indexes :
          /\ heap[j] # Null
          /\ heap[j].fromChain
          /\ Succeed(i, j, heap)

\* chain.ainvoke returns a value without the attributes of a result (a dict,
\* a string): "result.chunk_id = chunk.id" raises AttributeError
ChainReturnsValue(i) ==
    /\ pc[i] = "inflight"
    /\ Fail(i, "AttributeError")


\* ----------------------------------------- extract_from_chunks, the tail
Terminal == {"completed", "failed"}

\* "await asyncio.gather(...)" resumes once every task has returned
\* variant: gather resumes at the first failure
AllDoneMutant(p) ==
    \/ \A i \in DOMAIN p : p[i] \in Terminal
    \/ \E i \in DOMAIN p : p[i] = "failed"

AllDone(p) == \A i \in DOMAIN p : p[i] \in Terminal

\* asyncio.gather: the list of the tasks' return values, in the order the
\* tasks were passed
Gather(r) == [k \in 1..Len(chunks) |-> r[k - 1]]

\* indexed_results.sort(key=lambda x: x[0]) : stable, ascending
RECURSIVE Inserted(_, _)
Inserted(sorted, x) ==
    IF sorted = <<>> THEN <<x>>
    ELSE IF x.index < Head(sorted).index THEN <<x>> \o sorted
    ELSE <<Head(sorted)>> \o Inserted(Tail(sorted), x)

RECURSIVE SortedByIndex(_)
SortedByIndex(s) ==
    IF s = <<>> THEN <<>>
    ELSE Inserted(SortedByIndex(SubSeq(s, 1, Len(s) - 1)), s[Len(s)])

\* isinstance(result, Exception)
IsException(x) == x.kind = "error"

\* isinstance(result, ChunkExtractionResult)
IsExtractionResult(x, h) == x.kind = "result" /\ h[x.ref].cls = "ChunkExtractionResult"

\* the loop over indexed_results: extractions
RECURSIVE Extractions(_, _)
Extractions(s, h) ==
    IF s = <<>> THEN <<>>
    ELSE IF ~IsException(Head(s)) /\ IsExtractionResult(Head(s), h)
         THEN <<Head(s).ref>> \o Extractions(Tail(s), h)
         ELSE Extractions(Tail(s), h)

\* errors.append((index, chunks.chunks[index].id, result)), reported as
\* (index, cid, str(e))
\* variant: the entry carries the 1-based index
ErrorEntryMutant(x) == <<x.index + 1, chunks[x.index + 1].id, StrOf(x.error)>>

ErrorEntry(x) == <<x.index, chunks[x.index + 1].id, StrOf(x.error)>>

RECURSIVE Errors(_)
Errors(s) ==
    IF s = <<>> THEN <<>>
    ELSE IF IsException(Head(s))
         THEN <<ErrorEntry(Head(s))>> \o Errors(Tail(s))
         ELSE Errors(Tail(s))

\* "if errors:"
\* variant: a single failure is tolerated
MustRaiseMutant(errors) == Len(errors) > 1

MustRaise(errors) == errors # <<>>

\* lines 236-265. Nothing between the gather and the return raises anything
\* but the aggregate ExtractionError, so the handler of line 269 is not taken.
Finish ==
    /\ batch = "running"
    /\ AllDone(pc)
    /\ LET indexed_results == SortedByIndex(Gather(ret))
           extractions == Extractions(indexed_results, heap)
           errors == Errors(indexed_results)
       IN IF MustRaise(errors)
          THEN /\ batch' = "raised"
               /\ outcome' = [kind |-> "raised", cls |-> "ExtractionError",
                              count |-> Len(errors), details |-> errors]
          ELSE /\ batch' = "returned"
               /\ outcome' = [kind |-> "returned", value |-> extractions]
    /\ UNCHANGED <<inputVars, stageVars, callVars, limiterVars, pc, semaphore, rpmWait, tpmWait,
                   calls, ref, heap, ret, doneOrder, events, now>>

\* --------------------------------------------------------- specification
Next ==
    \/ StartBatch
    \/ Tick
    \/ Finish
    \/ \E i \in Indexes : Begin(i)
    \/ \E i \in Indexes : WaitForToken(i)
    \/ \E i \in Indexes : WaitForSlot(i)
    \/ \E i \in Indexes : Invoke(i)
    \/ \E i \in Indexes : ChainRaises(i)
    \/ \E i \in Indexes : ChainReturnsNone(i)
    \/ \E i \in Indexes : ChainReturnsObject(i)
    \/ \E i \in Indexes : ChainReturnsSame(i)
    \/ \E i \in Indexes : ChainReturnsValue(i)

Spec == Init /\ [][Next]_vars

\* The batch under a fair event loop, for termination: a task that is ready
\* is run in the end. Whether a chunk ends completed or failed is all that
\* matters here, so the per-chunk operation either raises or returns None and
\* no progress callback is set.
InitTermination == Init /\ ~progress_callback

NextTermination ==
    \/ StartBatch
    \/ Tick
    \/ Finish
    \/ \E i \in Indexes : Begin(i)
    \/ \E i \in Indexes : WaitForToken(i)
    \/ \E i \in Indexes : WaitForSlot(i)
    \/ \E i \in Indexes : Invoke(i)
    \/ \E i \in Indexes : ChainRaises(i)
    \/ \E i \in Indexes : ChainReturnsNone(i)

SpecTermination ==
    InitTermination /\ [][NextTermination]_vars /\ WF_vars(NextTermination)


\* ------------------------------------------ LogAnalyzer.analyze, stages 2-3
\* LogAnalyzer.__init__ builds LogExtractor() and LogIntegrator(); each of the
\* two constructors builds a RateLimiter of its own from the same settings.
\* limiter, tokens, last_update, requests are the extractor's; the integrator's
\* are the fields of integration.
BuiltIntegrator(l) ==
    [pc |-> "built", tokens |-> l.burst_size * SecondsPerMinute, last_update |-> 0,
     requests |-> <<>>, rpm |-> "idle", tpm |-> "idle"]

InitRun ==
    /\ \E n \in 0..MaxChunks : chunks = MakeChunks(n)
    /\ max_concurrency \in 0..MaxConc
    /\ progress_callback \in BOOLEAN
    /\ limiter \in LimiterConfigs
    /\ batch = "idle"
    /\ pc = [i \in Indexes |-> "pending"]
    /\ semaphore = 0
    /\ rpmWait = [i \in Indexes |-> "idle"]
    /\ tpmWait = [i \in Indexes |-> "idle"]
    /\ calls = [i \in Indexes |-> 0]
    /\ ref = [i \in Indexes |-> -1]
    /\ heap = [i \in Indexes |-> Null]
    /\ ret = [i \in Indexes |-> NoReturn]
    /\ doneOrder = <<>>
    /\ events = <<>>
    /\ outcome = [kind |-> "none"]
    /\ tokens = limiter.burst_size * SecondsPerMinute
    /\ last_update = 0
    /\ requests = <<>>
    /\ now = 0
    /\ log = <<>>
    /\ chunking = NoChunking
    /\ integration = BuiltIntegrator(limiter)
    /\ callers = <<>>

runFrame == <<inputVars, callVars, limiterVars, batch, pc, semaphore, rpmWait,
              tpmWait, calls, ref, heap, ret, doneOrder, events, outcome, chunking>>

\* "analysis = await self.integrator.integrate(extractions)" once
\* extract_from_chunks has returned: the early return for no extractions, else
\* "if self.rate_limiter: await self.rate_limiter.wait_for_permission(tokens=2)"
Integrate ==
    /\ batch = "returned"
    /\ integration.pc = "built"
    /\ integration' =
          IF outcome.value = <<>>
          THEN [integration EXCEPT !.pc = "returned"]
          ELSE IF MustWait(limiter)
               THEN [integration EXCEPT
                        !.pc = "waiting",
                        !.rpm = IF HasRpm(limiter) THEN "try" ELSE "done",
                        !.tpm = IF HasTpm(limiter) THEN "try" ELSE "done"]
               ELSE [integration EXCEPT !.pc = "invoked"]
    /\ UNCHANGED <<runFrame, now>>

\* wait_for_token(2) on the integrator's own bucket: one attempt
IntegrateWaitForToken ==
    /\ integration.pc = "waiting"
    /\ integration.rpm = "try"
    /\ LET tk == Refilled(integration.tokens, now - integration.last_update,
                          limiter.rpm_limit, limiter.burst_size)
       IN integration' = [integration EXCEPT
              !.tokens = BucketAfter(tk, IntegrateTokens),
              !.last_update = now,
              !.rpm = IF BucketAdmits(tk, IntegrateTokens) THEN "done" ELSE "sleep"]
    /\ UNCHANGED <<runFrame, now>>

\* wait_for_slot() on the integrator's own window: one attempt
IntegrateWaitForSlot ==
    /\ integration.pc = "waiting"
    /\ integration.tpm = "try"
    /\ LET reqs == Evicted(integration.requests, now, WindowSeconds)
       IN integration' = [integration EXCEPT
              !.requests = WindowAfter(reqs, now, limiter.tpm_limit),
              !.tpm = IF WindowAdmits(reqs, limiter.tpm_limit) THEN "done" ELSE "sleep"]
    /\ UNCHANGED <<runFrame, now>>

\* wait_for_permission has returned: the integration chain is invoked
IntegrateInvoke ==
    /\ integration.pc = "waiting"
    /\ integration.rpm = "done" /\ integration.tpm = "done"
    /\ integration' = [integration EXCEPT !.pc = "invoked"]
    /\ UNCHANGED <<runFrame, now>>

\* time passes for the waiters of both limiters
RunTick ==
    /\ MustWait(limiter)
    /\ now + TickStep <= MaxTime
    /\ now' = now + TickStep
    /\ rpmWait' = Woken(rpmWait)
    /\ tpmWait' = Woken(tpmWait)
    /\ integration' = [integration EXCEPT
                          !.rpm = IF @ = "sleep" THEN "try" ELSE @,
                          !.tpm = IF @ = "sleep" THEN "try" ELSE @]
    /\ UNCHANGED <<inputVars, callVars, limiterVars, batch, pc, semaphore, calls,
                   ref, heap, ret, doneOrder, events, outcome, chunking>>

NextRun ==
    \/ StartBatch
    \/ RunTick
    \/ Finish
    \/ \E i \in Indexes : Begin(i)
    \/ \E i \in Indexes : WaitForToken(i)
    \/ \E i \in Indexes : WaitForSlot(i)
    \/ \E i \in Indexes : Invoke(i)
    \/ \E i \in Indexes : ChainRaises(i)
    \/ \E i \in Indexes : ChainReturnsNone(i)
    \/ \E i \in Indexes : ChainReturnsObject(i)
    \/ \E i \in Indexes : ChainReturnsSame(i)
    \/ \E i \in Indexes : ChainReturnsValue(i)
    \/ Integrate
    \/ IntegrateWaitForToken
    \/ IntegrateWaitForSlot
    \/ IntegrateInvoke

SpecRun == InitRun /\ [][NextRun]_vars


\* ------------------------------------------------------------- LogChunker
\* A text is a sequence of characters. chunk_log leaves the splitting to
\* RecursiveCharacterTextSplitter of langchain_text_splitters, built at
\* splitter.py 54-60 with keep_separator=False and length_function=len (and
\* the library's defaults strip_whitespace=True, is_separator_regex=False);
\* the operators from StrFind to SplitText follow that class.
NL == "\n"
SP == " "
Whitespace == {NL, SP}

\* sub occurs in text at the 0-based position p
OccursAt(text, sub, p) ==
    /\ p >= 0
    /\ p + Len(sub) <= Len(text)
    /\ \A k \in 1..Len(sub) : text[p + k] = sub[k]

\* str.find(sub, start) for a non-empty sub: the lowest position >= start, or
\* -1; a negative start counts from the end and is clipped to 0
StrFind(text, sub, start) ==
    LET from == IF start >= 0 THEN start
                ELSE IF Len(text) + start > 0 THEN Len(text) + start ELSE 0
        hits == { p \in from..(Len(text) - Len(sub)) : OccursAt(text, sub, p) }
    IN IF hits = {} THEN -1 ELSE CHOOSE p \in hits : \A q \in hits : p <= q

\* re.split(re.escape(sep), text) for a non-empty sep; empty pieces are kept
RECURSIVE ReSplit(_, _)
ReSplit(text, sep) ==
    LET p == StrFind(text, sep, 0)
    IN IF p = -1 THEN <<text>>
       ELSE <<SubSeq(text, 1, p)>>
                \o ReSplit(SubSeq(text, p + Len(sep) + 1, Len(text)), sep)

\* _split_text_with_regex with keep_separator=False: re.split, or list(text)
\* for the empty separator; "return [s for s in splits if s != '']"
SplitWithRegex(text, sep) ==
    IF sep = <<>>
    THEN [k \in 1..Len(text) |-> <<text[k]>>]
    ELSE SelectSeq(ReSplit(text, sep), LAMBDA piece : piece # <<>>)

\* separator.join(docs)
RECURSIVE Join(_, _)
Join(docs, sep) ==
    IF docs = <<>> THEN <<>>
    ELSE IF Len(docs) = 1 THEN docs[1]
    ELSE docs[1] \o sep \o Join(Tail(docs), sep)

\* str.strip()
RECURSIVE LStrip(_)
LStrip(t) == IF t # <<>> /\ Head(t) \in Whitespace THEN LStrip(Tail(t)) ELSE t

RECURSIVE RStrip(_)
RStrip(t) ==
    IF t # <<>> /\ t[Len(t)] \in Whitespace THEN RStrip(SubSeq(t, 1, Len(t) - 1)) ELSE t

Strip(t) == RStrip(LStrip(t))

\* TextSplitter._join_docs: the joined and stripped text; <<>> stands for None
JoinDocs(docs, sep) == Strip(Join(docs, sep))

\* TextSplitter._merge_splits, the inner while loop: pieces are popped from the
\* front of current_doc while more than the overlap is kept or the next piece
\* does not fit
RECURSIVE PopFront(_, _, _, _, _, _)
PopFront(current_doc, total, len, separator_len, chunk_size, chunk_overlap) ==
    IF \/ total > chunk_overlap
       \/ /\ total + len + (IF Len(current_doc) > 0 THEN separator_len ELSE 0)
                > chunk_size
          /\ total > 0
    THEN PopFront(Tail(current_doc),
                  total - (Len(Head(current_doc))
                           + (IF Len(current_doc) > 1 THEN separator_len ELSE 0)),
                  len, separator_len, chunk_size, chunk_overlap)
    ELSE [current_doc |-> current_doc, total |-> total]

\* TextSplitter._merge_splits, one iteration of "for d in splits"
MergeOne(m, d, separator, chunk_size, chunk_overlap) ==
    LET separator_len == Len(separator)
        full == m.total + Len(d)
                    + (IF Len(m.current_doc) > 0 THEN separator_len ELSE 0)
                    > chunk_size
        doc == JoinDocs(m.current_doc, separator)
        kept == PopFront(m.current_doc, m.total, Len(d), separator_len,
                         chunk_size, chunk_overlap)
        emitted == IF full /\ Len(m.current_doc) > 0
                   THEN [docs |-> IF doc # <<>> THEN Append(m.docs, doc) ELSE m.docs,
                         current_doc |-> kept.current_doc, total |-> kept.total]
                   ELSE m
        current_doc == Append(emitted.current_doc, d)
    IN [docs |-> emitted.docs, current_doc |-> current_doc,
        total |-> emitted.total + Len(d)
                      + (IF Len(current_doc) > 1 THEN separator_len ELSE 0)]

RECURSIVE MergeLoop(_, _, _, _, _)
MergeLoop(m, splits, separator, chunk_size, chunk_overlap) ==
    IF splits = <<>> THEN m
    ELSE MergeLoop(MergeOne(m, Head(splits), separator, chunk_size, chunk_overlap),
                   Tail(splits), separator, chunk_size, chunk_overlap)

\* TextSplitter._merge_splits
MergeSplits(splits, separator, chunk_size, chunk_overlap) ==
    LET m == MergeLoop([docs |-> <<>>, current_doc |-> <<>>, total |-> 0],
                       splits, separator, chunk_size, chunk_overlap)
        doc == JoinDocs(m.current_doc, separator)
    IN IF doc # <<>> THEN Append(m.docs, doc) ELSE m.docs

\* RecursiveCharacterTextSplitter._split_text, the choice of the separator:
\* the index of the first separator that is empty or occurs in the text, 0 if
\* there is none (the last separator is then used)
SeparatorIndex(text, separators) ==
    LET found == { k \in 1..Len(separators) :
                      separators[k] = <<>> \/ StrFind(text, separators[k], 0) # -1 }
    IN IF found = {} THEN 0 ELSE CHOOSE k \in found : \A j \in found : k <= j

\* RecursiveCharacterTextSplitter._split_text: pieces shorter than chunk_size
\* are collected and merged; a piece that is not is split with the remaining
\* separators or, if none remains, emitted as it is
RECURSIVE SplitText(_, _, _, _)
RECURSIVE SplitLoop(_, _, _, _, _, _, _)
SplitLoop(splits, good_splits, final_chunks, separator, new_separators, chunk_size, chunk_overlap) ==
    LET merged == IF good_splits # <<>>
                  THEN final_chunks
                           \o MergeSplits(good_splits, separator, chunk_size,
                                          chunk_overlap)
                  ELSE final_chunks
    IN IF splits = <<>> THEN merged
       ELSE IF Len(Head(splits)) < chunk_size
            THEN SplitLoop(Tail(splits), Append(good_splits, Head(splits)),
                           final_chunks, separator, new_separators,
                           chunk_size, chunk_overlap)
            ELSE SplitLoop(Tail(splits), <<>>,
                           merged \o (IF new_separators = <<>>
                                      THEN <<Head(splits)>>
                                      ELSE SplitText(Head(splits), new_separators,
                                                     chunk_size, chunk_overlap)),
                           separator, new_separators, chunk_size, chunk_overlap)

SplitText(text, separators, chunk_size, chunk_overlap) ==
    LET k == SeparatorIndex(text, separators)
        separator == IF k = 0 THEN separators[Len(separators)] ELSE separators[k]
        new_separators == IF k = 0 \/ separator = <<>> THEN <<>>
                          ELSE SubSeq(separators, k + 1, Len(separators))
    IN SplitLoop(SplitWithRegex(text, separator), <<>>, <<>>, separator,
                 new_separators, chunk_size, chunk_overlap)

\* LogChunker.__init__: the separators of each strategy
Strategies == {"recursive", "line_based", "error_boundaries"}

Separators(strategy) ==
    IF strategy = "recursive" THEN << <<NL, NL>>, <<NL>>, <<SP>>, <<>> >>
    ELSE IF strategy = "line_based" THEN << <<NL>> >>
    ELSE << <<NL, "E", "R", "R", "O", "R">>,
            <<NL, "C", "R", "I", "T", "I", "C", "A", "L">>,
            <<NL, "F", "A", "T", "A", "L">>,
            <<NL, NL>>, <<NL>>, <<SP>>, <<>> >>


\* the inputs of the chunker: every text of up to MaxText characters over the
\* alphabet, and one log with an ERROR line
Alphabet == {"a", NL, SP}

TextsOfLength(n) == [1..n -> Alphabet]

SampleErrorLog == <<"a", "a", NL, "E", "R", "R", "O", "R", SP, "a">>

Texts == UNION { TextsOfLength(n) : n \in 0..MaxText } \cup {SampleErrorLog}

\* the metadata argument: None, a dict, or an object that is not a mapping
Metadatas == {"None", "dict", "list"}

\* "base_metadata = metadata or {}"
BaseMetadata(metadata) ==
    IF metadata = "dict" THEN [source |-> "app.log"] ELSE <<>>

\* LoggingAnalysisError.__init__(message, details=None): "self.details =
\* details or {}"; chunk_log passes the message only
ChunkingError(cause) ==
    [cls |-> "ChunkingError", cause |-> cause, details |-> <<>>]

\* TextSplitter.__init__: "if chunk_overlap > chunk_size: raise ValueError"
SplitterRejects(chunk_size, chunk_overlap) == chunk_overlap > chunk_size

\* "if not log_content: return LogChunks(chunks=[], total_size=0,
\*                                       original_log_size=0)"
\* variant: the empty text is given one empty chunk
EmptyLogChunksMutant ==
    [chunks |-> << [content |-> <<>>, start_index |-> 0, end_index |-> 0,
                    metadata |-> <<>>] >>,
     total_size |-> 0, original_log_size |-> 0]

EmptyLogChunks == [chunks |-> <<>>, total_size |-> 0, original_log_size |-> 0]

RECURSIVE SumOfLengths(_)
SumOfLengths(cs) ==
    IF cs = <<>> THEN 0 ELSE Len(Head(cs).content) + SumOfLengths(Tail(cs))

InitChunker ==
    /\ chunks = <<>>
    /\ max_concurrency = 1
    /\ progress_callback = FALSE
    /\ limiter = NoLimiter
    /\ batch = "idle"
    /\ pc = <<>>
    /\ semaphore = 0
    /\ rpmWait = <<>>
    /\ tpmWait = <<>>
    /\ calls = <<>>
    /\ ref = <<>>
    /\ heap = <<>>
    /\ ret = <<>>
    /\ doneOrder = <<>>
    /\ events = <<>>
    /\ outcome = [kind |-> "none"]
    /\ tokens = limiter.burst_size * SecondsPerMinute
    /\ last_update = 0
    /\ requests = <<>>
    /\ now = 0
    /\ log = <<>>
    /\ callers = <<>>
    /\ integration = NoIntegration
    /\ \E text \in Texts, size \in 1..MaxSize, overlap \in 0..MaxSize,
          strategy \in Strategies, metadata \in Metadatas :
          chunking = [pc |-> "new", log_content |-> text, chunk_size |-> size,
                      chunk_overlap |-> overlap, strategy |-> strategy,
                      metadata |-> metadata, texts |-> <<>>, i |-> 0,
                      current_position |-> 0, chunks |-> <<>>,
                      searched |-> <<>>, result |-> Null, error |-> Null]

chunkerFrame == <<inputVars, callVars, limiterVars, batch, pc, semaphore, rpmWait,
                  tpmWait, calls, ref, heap, ret, doneOrder, events, outcome,
                  integration, now>>

\* LogChunker(chunk_size, chunk_overlap, strategy): the splitter is built
\* outside any try block, so its ValueError reaches the caller as it is
NewLogChunker ==
    /\ chunking.pc = "new"
    /\ chunking' =
          IF SplitterRejects(chunking.chunk_size, chunking.chunk_overlap)
          THEN [chunking EXCEPT !.pc = "raised",
                                !.error = [cls |-> "ValueError"]]
          ELSE [chunking EXCEPT !.pc = "built"]
    /\ UNCHANGED chunkerFrame

\* chunk_log(log_content, metadata) up to the loop: the early return for an
\* empty text, else split_text, "current_position = 0"
ChunkLog ==
    /\ chunking.pc = "built"
    /\ chunking' =
          IF chunking.log_content = <<>>
          THEN [chunking EXCEPT !.pc = "returned", !.result = EmptyLogChunks]
          ELSE [chunking EXCEPT
                   !.pc = "loop",
                   !.texts = SplitText(chunking.log_content,
                                       Separators(chunking.strategy),
                                       chunking.chunk_size, chunking.chunk_overlap),
                   !.i = 0,
                   !.current_position = 0]
    /\ UNCHANGED chunkerFrame

\* lines 88-93: the forward search, and the cursor when it finds nothing
\* variant: a piece that is not found is put at the start of the text
StartIndexMutant(found, current_position) == IF found = -1 THEN 0 ELSE found

StartIndex(found, current_position) ==
    IF found = -1 THEN current_position ELSE found

\* line 109: where the search for the next piece starts
NextPosition(i, end_index, chunk_overlap) ==
    IF i > 0 THEN end_index - chunk_overlap ELSE end_index

\* one iteration of "for i, text in enumerate(texts)"; "{**base_metadata, ...}"
\* raises TypeError when metadata is not a mapping, and the handler of line
\* 120 turns it into ChunkingError
PlaceChunk ==
    /\ chunking.pc = "loop"
    /\ chunking.i < Len(chunking.texts)
    /\ LET text == chunking.texts[chunking.i + 1]
           found == StrFind(chunking.log_content, text, chunking.current_position)
           start_index == StartIndex(found, chunking.current_position)
           end_index == start_index + Len(text)
           chunk == [content |-> text, start_index |-> start_index,
                     end_index |-> end_index,
                     metadata |-> [chunk_number |-> chunking.i + 1,
                                   chunk_strategy |-> chunking.strategy]
                                      @@ BaseMetadata(chunking.metadata)]
       IN chunking' =
             IF chunking.metadata = "list"
             THEN [chunking EXCEPT !.pc = "raised",
                                   !.error = ChunkingError("TypeError"),
                                   !.searched = Append(@, [from |-> chunking.current_position,
                                                           found |-> found])]
             ELSE [chunking EXCEPT
                      !.chunks = Append(@, chunk),
                      !.searched = Append(@, [from |-> chunking.current_position,
                                              found |-> found]),
                      !.current_position = NextPosition(chunking.i, end_index,
                                                        chunking.chunk_overlap),
                      !.i = @ + 1]
    /\ UNCHANGED chunkerFrame

\* lines 112-118: "return LogChunks(chunks, total_size, original_log_size)"
ReturnLogChunks ==
    /\ chunking.pc = "loop"
    /\ chunking.i = Len(chunking.texts)
    /\ chunking' = [chunking EXCEPT
          !.pc = "returned",
          !.result = [chunks |-> chunking.chunks,
                      total_size |-> SumOfLengths(chunking.chunks),
                      original_log_size |-> Len(chunking.log_content)]]
    /\ UNCHANGED chunkerFrame

NextChunker ==
    \/ NewLogChunker
    \/ ChunkLog
    \/ PlaceChunk
    \/ ReturnLogChunks

SpecChunker == InitChunker /\ [][NextChunker]_vars


\* ================================================================ claims
Failed == {i \in Indexes : pc[i] = "failed"}
Completed == {i \in Indexes : pc[i] = "completed"}
InFlight == {i \in Indexes : pc[i] = "inflight"}
BatchOver == batch \in {"returned", "raised"}

\* C1 (as claimed): a batch that returns gives a list whose i-th element is
\* the result produced for chunks[i], carrying chunks[i].id, for every i.
C1_ResultsMatchChunks ==
    batch = "returned" =>
        /\ Len(outcome.value) = Len(chunks)
        /\ \A i \in Indexes :
              /\ outcome.value[i + 1] = ref[i]
              /\ heap[outcome.value[i + 1]].chunk_id = chunks[i + 1].id

\* C2 (as claimed): whatever the per-chunk operations return or raise, the
\* batch ends either with a list of exactly N results or with a raised
\* ExtractionError; no chunk's outcome is dropped.
C2_NoSilentDrop ==
    BatchOver =>
        \/ outcome.kind = "returned" /\ Len(outcome.value) = Len(chunks)
        \/ outcome.kind = "raised" /\ outcome.cls = "ExtractionError"

\* C3: the number of per-chunk operation calls that are active at the same
\* time never exceeds max_concurrency.
C3_ConcurrencyBound == Cardinality(InFlight) <= max_concurrency

\* C3 witness: the bound is reached while another chunk is still waiting
\* for a slot.
C3_Witness ==
    /\ max_concurrency >= 1
    /\ Cardinality(InFlight) = max_concurrency
    /\ \E i \in Indexes : pc[i] = "pending"

\* C4: the per-chunk operation is invoked at most once per chunk at any
\* time, and exactly once per chunk by the time the batch is over, whatever
\* the outcomes of the other chunks.
C4_ExactlyOnce ==
    \A i \in Indexes :
        /\ calls[i] <= 1
        /\ BatchOver => calls[i] = 1

\* C4 witness: a chunk failed first, its sibling was invoked all the same,
\* and the batch is over.
C4_Witness ==
    /\ BatchOver
    /\ Len(chunks) >= 2
    /\ doneOrder[1] \in Failed
    /\ \E j \in Completed : calls[j] = 1

\* C5: the details of the aggregate ExtractionError hold exactly one
\* (index, chunk_id, cause) entry per failed chunk and none for a chunk that
\* succeeded; the index is the chunk's input index, the id is chunks[index].id.
C5_AggregateDetails ==
    batch = "raised" =>
        LET d == outcome.details
        IN /\ \A k \in 1..Len(d) :
                 /\ d[k][1] \in Failed
                 /\ d[k][2] = chunks[d[k][1] + 1].id
                 /\ d[k][3] = StrOf(ret[d[k][1]].error)
           /\ \A i \in Failed : Cardinality({k \in 1..Len(d) : d[k][1] = i}) = 1
           /\ outcome.count = Cardinality(Failed)

\* C5 witness: the batch raised with one failed and one succeeded chunk.
C5_Witness ==
    /\ batch = "raised"
    /\ Cardinality(Failed) = 1
    /\ Cardinality(Completed) = 1
    /\ Len(outcome.details) = 1

\* C6: the batch returns a list if and only if no chunk failed; with a
\* failed chunk it raises ExtractionError and hands back no result at all.
C6_AllOrNothing ==
    BatchOver =>
        /\ (batch = "returned") <=> (Failed = {})
        /\ batch = "returned" => outcome.kind = "returned"
        /\ batch = "raised" =>
              /\ outcome.kind = "raised"
              /\ outcome.cls = "ExtractionError"
              /\ "value" \notin DOMAIN outcome

\* C6 witness: the batch raised although a chunk had produced a proper
\* ChunkExtractionResult.
C6_Witness ==
    /\ batch = "raised"
    /\ \E i \in Completed : heap[ref[i]].cls = "ChunkExtractionResult"

\* C7: when the aggregate ExtractionError is raised every chunk of the
\* batch is completed or failed; none is pending, waiting or in flight.
C7_RaisedAfterAll == batch = "raised" => \A i \in Indexes : pc[i] \in Terminal

\* C7 witness: the batch raised, and the failure came before the last
\* chunk finished.
C7_Witness ==
    /\ batch = "raised"
    /\ Len(doneOrder) >= 2
    /\ doneOrder[1] \in Failed
    /\ doneOrder[Len(doneOrder)] \notin Failed

\* C8: a batch over an empty chunk set returns the empty list at once and
\* leaves the progress sink, the token bucket and the timestamp queue as
\* they were; nothing is invoked.
C8_EmptyBatch ==
    Len(chunks) = 0 =>
        /\ events = <<>>
        /\ tokens = limiter.burst_size * SecondsPerMinute
        /\ last_update = 0
        /\ requests = <<>>
        /\ DOMAIN calls = {}
        /\ batch # "idle" =>
              /\ batch = "returned"
              /\ outcome = [kind |-> "returned", value |-> <<>>]

\* C8 witness: an empty batch has returned, with a progress sink and both
\* sub-limiters configured, after time has passed.
C8_Witness ==
    /\ Len(chunks) = 0
    /\ batch = "returned"
    /\ progress_callback
    /\ HasRpm(limiter) /\ HasTpm(limiter)
    /\ now > 0

\* C9: the result extract_from_chunk returns for a chunk carries that
\* chunk's id, whatever id the per-chunk operation had put into it.
C9_ChunkIdOverwritten ==
    [][\A i \in Indexes :
          (pc[i] = "inflight" /\ pc'[i] = "completed")
              => heap'[ref'[i]].chunk_id = chunks[i + 1].id]_vars

\* C9 witness: the operation handed back an object that carried another
\* chunk's id, and the chunk completed last.
C9_Witness ==
    /\ doneOrder # <<>>
    /\ LET i == doneOrder[Len(doneOrder)]
       IN /\ pc[i] = "completed"
          /\ ref[i] # i
          /\ heap[ref[i]].chunk_id = chunks[i + 1].id

\* C10: a chunk for which the operation returned None is completed, not
\* failed: its result is the empty result with the sentinel summary and the
\* chunk's id, a "completed" event is emitted for it, and a batch whose
\* chunks all returned None or a fresh ChunkExtractionResult returns N
\* results in input order.
ReturnedNone(i) == ref[i] = i /\ ~heap[i].fromChain
ReturnedFresh(i) == ref[i] = i /\ heap[i].fromChain /\ heap[i].cls = "ChunkExtractionResult"
                    /\ \A j \in Indexes : ref[j] = i => j = i

C10_NoneIsEmptyResult ==
    /\ \A i \in Indexes :
          (ref[i] # -1 /\ ReturnedNone(i)) =>
              /\ pc[i] = "completed"
              /\ heap[i] = [cls |-> "ChunkExtractionResult",
                            chunk_id |-> chunks[i + 1].id, exceptions |-> <<>>,
                            libraries |-> <<>>, problematic_behaviors |-> <<>>,
                            summary |-> SentinelSummary, fromChain |-> FALSE]
              /\ progress_callback =>
                    \E k \in 1..Len(events) :
                        /\ events[k].status = "completed"
                        /\ events[k].chunk_id = chunks[i + 1].id
                        /\ events[k].extra = <<0, 0, 0>>
    /\ (BatchOver /\ \A i \in Indexes : ReturnedNone(i) \/ ReturnedFresh(i)) =>
          /\ batch = "returned"
          /\ Len(outcome.value) = Len(chunks)
          /\ \A i \in Indexes :
                /\ outcome.value[i + 1] = ref[i]
                /\ heap[ref[i]].chunk_id = chunks[i + 1].id

\* C10 witness: a batch of two has returned; one chunk's operation
\* returned None, the other a fresh result, and the None chunk finished last.
C10_Witness ==
    /\ batch = "returned"
    /\ progress_callback
    /\ Len(chunks) = 2
    /\ ReturnedNone(0)
    /\ ReturnedFresh(1)
    /\ doneOrder = <<1, 0>>


\* index of the chunk an event is about (chunk ids are distinct)
IndexOfEvent(e) == CHOOSE i \in Indexes : chunks[i + 1].id = e.chunk_id

\* a / b = (c / d) for fractions with positive denominators
SameFraction(p, num, den) == p.num * den = num * p.den

\* C11: once the error of a chunk has reached the caller of
\* extract_from_chunk it is an ExtractionError carrying the chunk's id and
\* content length, and the "failed" event of that chunk has been emitted.
C11_FailureWrapped ==
    \A i \in Indexes :
        ret[i].kind = "error" =>
            /\ ret[i].error.cls = "ExtractionError"
            /\ ret[i].error.chunk_id = chunks[i + 1].id
            /\ ret[i].error.chunk_size = chunks[i + 1].size
            /\ progress_callback =>
                  \E k \in 1..Len(events) :
                      /\ events[k].status = "failed"
                      /\ events[k].chunk_id = chunks[i + 1].id
                      /\ events[k].extra = <<ret[i].error.cause>>

\* C11 witness: the operation raised for the second chunk while the batch
\* is still running.
C11_Witness ==
    /\ batch = "running"
    /\ progress_callback
    /\ Len(chunks) = 2
    /\ ret[1].kind = "error"
    /\ ret[1].error.cause = "LLM error"
    /\ events[Len(events)].status = "failed"

\* C12: every "completed" or "failed" event of the chunk at input index i
\* in a batch of N carries chunk_index = i + 1, total_chunks = N and
\* progress_percentage = (i + 1) / N * 100, whatever the completion order.
C12_TerminalEventProgress ==
    \A k \in 1..Len(events) :
        events[k].status \in {"completed", "failed"} =>
            LET i == IndexOfEvent(events[k])
            IN /\ events[k].chunk_index = i + 1
               /\ events[k].total_chunks = Len(chunks)
               /\ SameFraction(events[k].progress_percentage, (i + 1) * 100, Len(chunks))

\* C12 witness: the second chunk's terminal event came before the first
\* chunk's.
C12_Witness ==
    /\ Len(chunks) = 2
    /\ doneOrder = <<1, 0>>
    /\ \E k \in 1..Len(events) : \E m \in (k + 1)..Len(events) :
          /\ events[k].status = "completed" /\ events[k].chunk_index = 2
          /\ events[m].status = "failed" /\ events[m].chunk_index = 1

batchVars == <<batch, pc, semaphore, rpmWait, tpmWait, calls, ref, heap, ret,
               doneOrder, events, outcome>>

\* no extract_from_chunks call is under way
NoBatch ==
    /\ chunks = <<>>
    /\ max_concurrency = 0
    /\ progress_callback = FALSE
    /\ batch = "idle"
    /\ pc = <<>>
    /\ semaphore = 0
    /\ rpmWait = <<>>
    /\ tpmWait = <<>>
    /\ calls = <<>>
    /\ ref = <<>>
    /\ heap = <<>>
    /\ ret = <<>>
    /\ doneOrder = <<>>
    /\ events = <<>>
    /\ outcome = [kind |-> "none"]

\* the token counts the program asks for: wait_for_permission(tokens=1) in the
\* extractor, wait_for_permission(tokens=2) in the integrator
TokenRequests == {ExtractTokens, IntegrateTokens}

\* the fields of the two sub-limiters
Snapshot(tk, lu, reqs) == [tokens |-> tk, last_update |-> lu, requests |-> reqs]

\* one call on the limiter: what was asked, when, the answer, and the
\* sub-limiters' fields before and after
Call(op, who, n, ok, post) ==
    [op |-> op, who |-> who, n |-> n, t |-> now, ok |-> ok,
     pre |-> Snapshot(tokens, last_update, requests), post |-> post]

\* time.time() moves on
Elapse ==
    /\ now + ClockStep <= MaxClock
    /\ now' = now + ClockStep
    /\ callers' = [c \in DOMAIN callers |->
                      [callers[c] EXCEPT !.rpm = IF @ = "sleep" THEN "try" ELSE @,
                                         !.tpm = IF @ = "sleep" THEN "try" ELSE @]]
    /\ UNCHANGED <<inputVars, stageVars, limiterVars, batchVars, log>>

\* ------------------------------------------------------------ TokenBucket
\* TokenBucket(rate, burst): tokens = burst, last_update = time.time()
BucketConfigs ==
    { [LimiterConfig(TRUE, r, 0) EXCEPT !.burst_size = b] :
          r \in 1..RpmChoice, b \in 0..(BurstChoice + 1) }

InitBucket ==
    /\ NoBatch
    /\ limiter \in BucketConfigs
    /\ tokens = limiter.burst_size * SecondsPerMinute
    /\ last_update = 0
    /\ requests = <<>>
    /\ now = 0
    /\ log = <<>>
    /\ chunking = NoChunking
    /\ integration = NoIntegration
    /\ callers = <<>>

\* TokenBucket.acquire(tokens), one call: it has no suspension point (the
\* lock is never held across one), so it is one step
BucketAcquire(n) ==
    /\ HasRpm(limiter)
    /\ Len(log) < MaxLog
    /\ LET tk == Refilled(tokens, now - last_update, limiter.rpm_limit,
                          limiter.burst_size)
       IN /\ tokens' = BucketAfter(tk, n)
          /\ last_update' = now
          /\ log' = Append(log, Call("bucket.acquire", 0, n, BucketAdmits(tk, n),
                                     Snapshot(BucketAfter(tk, n), now, requests)))
    /\ UNCHANGED <<inputVars, stageVars, batchVars, requests, now, callers>>

NextBucket ==
    \/ \E n \in TokenRequests : BucketAcquire(n)
    \/ Elapse

SpecBucket == InitBucket /\ [][NextBucket]_vars

\* --------------------------------------------------------------- claims
\* the calls so far are k acquire(1) calls on the bucket, all at time 0
OnlyUnitCallsAtStart(k) ==
    \A j \in 1..k :
        log[j].op = "bucket.acquire" /\ log[j].n = 1 /\ log[j].t = 0

\* C14: on a fresh token bucket of capacity B, with no time elapsed, the
\* k-th of a run of acquire(1) calls succeeds exactly when k <= B; the
\* (B+1)-th is answered false while the clock still reads the start time.
C14_BurstThenDenied ==
    \A k \in 1..Len(log) :
        OnlyUnitCallsAtStart(k) => (log[k].ok <=> k <= limiter.burst_size)

\* C14 witness: capacity 2, three acquire(1) calls at time 0: true, true,
\* false, and no time has passed.
C14_Witness ==
    /\ limiter.burst_size = 2
    /\ Len(log) = 3
    /\ OnlyUnitCallsAtStart(3)
    /\ log[1].ok /\ log[2].ok /\ ~log[3].ok
    /\ now = 0

\* an acquire has succeeded before call k and less than one token was left
\* when call k was made
Emptied(k) ==
    /\ \E j \in 1..(k - 1) : log[j].op = "bucket.acquire" /\ log[j].ok
    /\ log[k].pre.tokens < SecondsPerMinute

\* C15: on an emptied bucket an acquire(1) made at least 60 / rate after the
\* last access succeeds; every access adds elapsed / 60 * rate tokens, up to
\* the capacity, and the token count is never above the capacity.
C15_RefillOverTime ==
    /\ tokens <= limiter.burst_size * SecondsPerMinute
    /\ \A k \in 1..Len(log) :
          log[k].op = "bucket.acquire" =>
              LET e == log[k]
                  gain == (e.t - e.pre.last_update) * limiter.rpm_limit
                  cap == limiter.burst_size * SecondsPerMinute
                  had == e.post.tokens + (IF e.ok THEN e.n * SecondsPerMinute ELSE 0)
              IN /\ had = (IF e.pre.tokens + gain > cap THEN cap ELSE e.pre.tokens + gain)
                 /\ (Emptied(k) /\ e.n = 1 /\ gain >= SecondsPerMinute) => e.ok

\* C15 witness: rate 2, capacity 1: emptied at 0, denied at 20 with a third
\* of the refill missing, granted at 60 where the refill is capped.
C15_Witness ==
    /\ limiter.rpm_limit = 2 /\ limiter.burst_size = 1
    /\ Len(log) = 3
    /\ log[1].ok /\ log[1].t = 0
    /\ ~log[2].ok /\ log[2].t = 20 /\ log[2].n = 1 /\ log[2].post.tokens = 40
    /\ log[3].ok /\ log[3].t = 60 /\ log[3].n = 1 /\ Emptied(3)
    /\ tokens = 0


\* ----------------------------------------------------------- SlidingWindow
\* SlidingWindow(limit, window=60): requests = deque()
WindowConfigs == { LimiterConfig(TRUE, 0, l) : l \in 1..(TpmChoice + 1) }

InitWindow ==
    /\ NoBatch
    /\ limiter \in WindowConfigs
    /\ tokens = limiter.burst_size * SecondsPerMinute
    /\ last_update = 0
    /\ requests = <<>>
    /\ now = 0
    /\ log = <<>>
    /\ chunking = NoChunking
    /\ integration = NoIntegration
    /\ callers = <<>>

\* SlidingWindow.acquire(), one call by caller c; like TokenBucket.acquire it
\* has no suspension point, so concurrent callers interleave whole calls
WindowAcquire(c) ==
    /\ HasTpm(limiter)
    /\ Len(log) < MaxLog
    /\ LET reqs == Evicted(requests, now, WindowSeconds)
       IN /\ requests' = WindowAfter(reqs, now, limiter.tpm_limit)
          /\ log' = Append(log, Call("window.acquire", c, 0,
                                     WindowAdmits(reqs, limiter.tpm_limit),
                                     Snapshot(tokens, last_update,
                                              WindowAfter(reqs, now, limiter.tpm_limit))))
    /\ UNCHANGED <<inputVars, stageVars, batchVars, tokens, last_update, now, callers>>

NextWindow ==
    \/ \E c \in 1..MaxCallers : WindowAcquire(c)
    \/ Elapse

SpecWindow == InitWindow /\ [][NextWindow]_vars

\* --------------------------------------------------------------- claims
\* the admissions among the first k calls that lie within the window that
\* ends at time t: later than t - W, W being the window of the limiter
AdmittedWithin(k, t) ==
    { j \in 1..k : /\ log[j].op = "window.acquire"
                   /\ log[j].ok
                   /\ log[j].t > t - WindowSeconds
                   /\ log[j].t <= t }

\* C16: the timestamp queue never holds more than L entries; an acquire made
\* while L admissions lie within the last W time units is denied; at most L
\* admissions are granted in any trailing interval of length W. The interval
\* that ends at t is (t - W, t]: a timestamp exactly W old is evicted.
C16_WindowBound ==
    /\ Len(requests) <= limiter.tpm_limit
    /\ \A k \in 1..Len(log) :
          log[k].op = "window.acquire" =>
              /\ Cardinality(AdmittedWithin(k - 1, log[k].t)) >= limiter.tpm_limit
                    => ~log[k].ok
              /\ Cardinality(AdmittedWithin(k, log[k].t)) <= limiter.tpm_limit

\* C16 witness: limit 2, two callers admitted at different times, then a
\* third call inside the window of both is denied with the queue full.
C16_Witness ==
    /\ limiter.tpm_limit = 2
    /\ Len(log) = 3
    /\ log[1].ok /\ log[1].who = 1 /\ log[1].t = 0
    /\ log[2].ok /\ log[2].who = 2 /\ log[2].t = 20
    /\ ~log[3].ok /\ log[3].t = 40
    /\ Len(requests) = 2

\* the window has denied an acquire before call k
DeniedBefore(k) ==
    \E j \in 1..(k - 1) : log[j].op = "window.acquire" /\ ~log[j].ok

\* C17: once the window (limit L >= 1) has denied an acquire, an acquire made
\* more than W after the oldest recorded admission succeeds, and the queue
\* it leaves holds no timestamp older than the window.
C17_ExpiredAdmitsAgain ==
    \A k \in 1..Len(log) :
        (/\ log[k].op = "window.acquire"
         /\ limiter.tpm_limit >= 1
         /\ DeniedBefore(k)
         /\ log[k].pre.requests # <<>>
         /\ log[k].t > Head(log[k].pre.requests) + WindowSeconds)
        => /\ log[k].ok
           /\ \A m \in 1..Len(log[k].post.requests) :
                 log[k].post.requests[m] > log[k].t - WindowSeconds

\* C17 witness: limit 2, admitted at 0 and 20, denied at 40, and admitted
\* at 80, more than W after the oldest admission; both old timestamps are
\* evicted and the queue holds the new one only.
C17_Witness ==
    /\ limiter.tpm_limit = 2
    /\ Len(log) = 4
    /\ log[1].ok /\ log[1].t = 0
    /\ log[2].ok /\ log[2].t = 20
    /\ ~log[3].ok /\ log[3].t = 40
    /\ log[4].ok /\ log[4].t = 80
    /\ log[4].pre.requests = <<0, 20>>
    /\ requests = <<80>>


\* ------------------------------------------------------------- RateLimiter
\* RateLimiter(config): a disabled limiter with limits set, one limit each,
\* both limits, and an enabled limiter with no limit at all
RateLimiterConfigs ==
    { LimiterConfig(FALSE, RpmChoice, TpmChoice),
      LimiterConfig(TRUE, RpmChoice, 0),
      LimiterConfig(TRUE, 0, TpmChoice),
      LimiterConfig(TRUE, RpmChoice, TpmChoice),
      LimiterConfig(TRUE, 0, 0) }

Callers == 1..MaxCallers

\* RateLimiter.get_stats() on the fields tk, reqs: the configuration, and per
\* sub-limiter that exists round(tokens, 2) (in hundredths of a token) with
\* the bucket size, len(requests) with the window's limit
GetStats(l, tk, reqs) ==
    [enabled |-> l.enabled, tpm_limit |-> l.tpm_limit, rpm_limit |-> l.rpm_limit,
     burst_size |-> l.burst_size,
     rpm |-> IF HasRpm(l)
             THEN [rpm_available_tokens |->
                       (tk * 100 + SecondsPerMinute \div 2) \div SecondsPerMinute,
                   rpm_bucket_size |-> l.burst_size]
             ELSE Null,
     tpm |-> IF HasTpm(l)
             THEN [tpm_current_requests |-> Len(reqs), tpm_limit |-> l.tpm_limit]
             ELSE Null]

\* a caller that has not called yet
Idle == [st |-> "idle", op |-> "", n |-> 0, rpm |-> "none", tpm |-> "none",
         raise_on_limit |-> FALSE, error |-> Null]

\* callers are numbered in the order of their calls
Arrives(c) ==
    /\ callers[c].st = "idle"
    /\ IF c = 1 THEN TRUE ELSE callers[c - 1].st # "idle"

InitLimiter ==
    /\ NoBatch
    /\ limiter \in RateLimiterConfigs
    /\ tokens = limiter.burst_size * SecondsPerMinute
    /\ last_update = 0
    /\ requests = <<>>
    /\ now = 0
    /\ log = <<>>
    /\ chunking = NoChunking
    /\ integration = NoIntegration
    /\ callers = [c \in Callers |-> Idle]

\* "if not self.config.enabled"
Disabled(l) == ~l.enabled

\* RateLimiter.acquire, "return False" after the window's denial: what the
\* bucket has deducted stays deducted
\* variant: the tokens are handed back to the bucket
KeptOnDenialMutant(tk, n) == tk + n * SecondsPerMinute

KeptOnDenial(tk, n) == tk

\* RateLimiter.acquire(tokens) at time t on the fields tk, lu, reqs: the
\* answer and the fields it leaves. The bucket is asked first; the window is
\* asked only if the bucket admitted.
AcquireOutcome(l, tk, lu, reqs, t, n) ==
    IF Disabled(l)
    THEN [ok |-> TRUE, post |-> Snapshot(tk, lu, reqs)]
    ELSE LET filled == Refilled(tk, t - lu, l.rpm_limit, l.burst_size)
             bucketOk == HasRpm(l) => BucketAdmits(filled, n)
             tk2 == IF HasRpm(l) THEN BucketAfter(filled, n) ELSE tk
             lu2 == IF HasRpm(l) THEN t ELSE lu
             asked == HasTpm(l) /\ bucketOk
             kept == Evicted(reqs, t, WindowSeconds)
             windowOk == asked => WindowAdmits(kept, l.tpm_limit)
             reqs2 == IF asked THEN WindowAfter(kept, t, l.tpm_limit) ELSE reqs
             tk3 == IF HasRpm(l) /\ asked /\ ~windowOk THEN KeptOnDenial(tk2, n) ELSE tk2
         IN [ok |-> bucketOk /\ windowOk, post |-> Snapshot(tk3, lu2, reqs2)]

\* RateLimiter.acquire(tokens) by caller c, one call: neither sub-limiter
\* suspends, so it is one step
Acquire(c, n) ==
    /\ Arrives(c)
    /\ LET out == AcquireOutcome(limiter, tokens, last_update, requests, now, n)
       IN /\ tokens' = out.post.tokens
          /\ last_update' = out.post.last_update
          /\ requests' = out.post.requests
          /\ log' = Append(log, Call("acquire", c, n, out.ok, out.post))
          /\ callers' = [callers EXCEPT ![c] =
                [Idle EXCEPT !.st = "returned", !.op = "acquire", !.n = n]]
    /\ UNCHANGED <<inputVars, stageVars, batchVars, now>>

\* with_rate_limit, "if not await rate_limiter.acquire(tokens): raise"
\* variant: the denial is swallowed
AfterAcquireMutant(ok) == "returned"

AfterAcquire(ok) == IF ok THEN "returned" ELSE "raised"

\* RateLimitError("Rate limit exceeded", stats=rate_limiter.get_stats())
RateLimitError(stats) == [cls |-> "RateLimitError", stats |-> stats]

\* with_rate_limit(rate_limiter, tokens, raise_on_limit=True) by caller c:
\* one acquire, RateLimitError if it is denied
WithRateLimitRaising(c, n) ==
    /\ Arrives(c)
    /\ LET out == AcquireOutcome(limiter, tokens, last_update, requests, now, n)
       IN /\ tokens' = out.post.tokens
          /\ last_update' = out.post.last_update
          /\ requests' = out.post.requests
          /\ log' = Append(log, Call("with_rate_limit", c, n, out.ok, out.post))
          /\ callers' = [callers EXCEPT ![c] =
                [Idle EXCEPT !.st = AfterAcquire(out.ok),
                             !.op = "with_rate_limit", !.n = n,
                             !.raise_on_limit = TRUE,
                             !.error = IF AfterAcquire(out.ok) = "raised"
                                       THEN RateLimitError(GetStats(limiter,
                                                out.post.tokens, out.post.requests))
                                       ELSE Null]]
    /\ UNCHANGED <<inputVars, stageVars, batchVars, now>>

\* RateLimiter.wait_for_permission(tokens) by caller c, called directly or
\* through with_rate_limit(raise_on_limit=False): it returns at once if the
\* limiter is disabled or has no sub-limiter, otherwise it gathers one waiter
\* per sub-limiter and suspends
Waiter(n, op) ==
    IF Disabled(limiter) \/ ~MustWait(limiter)
    THEN [Idle EXCEPT !.st = "returned", !.op = op, !.n = n]
    ELSE [Idle EXCEPT !.st = "waiting", !.op = op, !.n = n,
                      !.rpm = IF HasRpm(limiter) THEN "try" ELSE "none",
                      !.tpm = IF HasTpm(limiter) THEN "try" ELSE "none"]

WaitForPermission(c, n) ==
    /\ Arrives(c)
    /\ callers' = [callers EXCEPT ![c] = Waiter(n, "wait_for_permission")]
    /\ UNCHANGED <<inputVars, stageVars, batchVars, limiterVars, now, log>>

\* with_rate_limit(rate_limiter, tokens, raise_on_limit=False) by caller c:
\* "await rate_limiter.wait_for_permission(tokens)" and nothing else
WithRateLimitWaiting(c, n) ==
    /\ Arrives(c)
    /\ callers' = [callers EXCEPT ![c] = Waiter(n, "with_rate_limit")]
    /\ UNCHANGED <<inputVars, stageVars, batchVars, limiterVars, now, log>>

\* TokenBucket.wait_for_token(tokens) of caller c: one attempt of acquire; on
\* denial the waiter sleeps max(0.1, min(wait_time, 1)) and tries again
TokenAttempt(c) ==
    /\ callers[c].st = "waiting"
    /\ callers[c].rpm = "try"
    /\ LET n == callers[c].n
           tk == Refilled(tokens, now - last_update, limiter.rpm_limit,
                          limiter.burst_size)
       IN /\ tokens' = BucketAfter(tk, n)
          /\ last_update' = now
          /\ callers' = [callers EXCEPT ![c].rpm =
                            IF BucketAdmits(tk, n) THEN "done" ELSE "sleep"]
          /\ log' = IF BucketAdmits(tk, n)
                    THEN Append(log, Call("wait_for_token", c, n, TRUE,
                                          Snapshot(BucketAfter(tk, n), now, requests)))
                    ELSE log
    /\ UNCHANGED <<inputVars, stageVars, batchVars, requests, now>>

\* SlidingWindow.wait_for_slot() of caller c: one attempt of acquire; on
\* denial the waiter sleeps and tries again
SlotAttempt(c) ==
    /\ callers[c].st = "waiting"
    /\ callers[c].tpm = "try"
    /\ LET kept == Evicted(requests, now, WindowSeconds)
           ok == WindowAdmits(kept, limiter.tpm_limit)
       IN /\ requests' = WindowAfter(kept, now, limiter.tpm_limit)
          /\ callers' = [callers EXCEPT ![c].tpm = IF ok THEN "done" ELSE "sleep"]
          /\ log' = IF ok
                    THEN Append(log, Call("wait_for_slot", c, 0, TRUE,
                                          Snapshot(tokens, last_update,
                                                   WindowAfter(kept, now, limiter.tpm_limit))))
                    ELSE log
    /\ UNCHANGED <<inputVars, stageVars, batchVars, tokens, last_update, now>>

\* "await asyncio.gather(*tasks)" is over: every waiter has returned
\* variant: the gather is over as soon as one waiter has returned
GatheredMutant(w) == w.rpm = "done" \/ w.tpm = "done"

Gathered(w) == w.rpm \in {"none", "done"} /\ w.tpm \in {"none", "done"}

\* wait_for_permission returns to caller c
PermissionReturn(c) ==
    /\ callers[c].st = "waiting"
    /\ Gathered(callers[c])
    /\ callers' = [callers EXCEPT ![c].st = "returned"]
    /\ UNCHANGED <<inputVars, stageVars, batchVars, limiterVars, now, log>>

NextLimiter ==
    \/ \E c \in Callers : \E n \in TokenRequests : Acquire(c, n)
    \/ \E c \in Callers : \E n \in TokenRequests : WithRateLimitRaising(c, n)
    \/ \E c \in Callers : \E n \in TokenRequests : WaitForPermission(c, n)
    \/ \E c \in Callers : TokenAttempt(c)
    \/ \E c \in Callers : SlotAttempt(c)
    \/ \E c \in Callers : PermissionReturn(c)
    \/ Elapse

SpecLimiter == InitLimiter /\ [][NextLimiter]_vars

\* every caller goes through with_rate_limit, in either mode
NextGuard ==
    \/ \E c \in Callers : \E n \in TokenRequests : WithRateLimitRaising(c, n)
    \/ \E c \in Callers : \E n \in TokenRequests : WithRateLimitWaiting(c, n)
    \/ \E c \in Callers : TokenAttempt(c)
    \/ \E c \in Callers : SlotAttempt(c)
    \/ \E c \in Callers : PermissionReturn(c)
    \/ Elapse

SpecGuard == InitLimiter /\ [][NextGuard]_vars


\* --------------------------------------------------------------- claims
\* the tokens (times 60) a bucket with the fields pre holds at time t, once
\* refilled
Have(pre, t) ==
    LET gain == (t - pre.last_update) * limiter.rpm_limit
        cap == limiter.burst_size * SecondsPerMinute
    IN IF pre.tokens + gain > cap THEN cap ELSE pre.tokens + gain

\* the timestamps of pre that lie within the window that ends at t
InWindow(pre, t) ==
    { m \in 1..Len(pre.requests) : pre.requests[m] > t - WindowSeconds }

\* what each sub-limiter, asked on its own, would answer on the fields pre
BucketWouldAdmit(pre, t, n) == Have(pre, t) >= n * SecondsPerMinute
WindowWouldAdmit(pre, t) == Cardinality(InWindow(pre, t)) < limiter.tpm_limit

\* the calls of RateLimiter.acquire: direct ones and with_rate_limit's
IsAcquire(e) == e.op \in {"acquire", "with_rate_limit"}

\* the bucket admits call e and the window denies it
BucketOnly(e) ==
    /\ HasRpm(limiter) /\ HasTpm(limiter)
    /\ BucketWouldAdmit(e.pre, e.t, e.n)
    /\ ~WindowWouldAdmit(e.pre, e.t)

\* C18: RateLimiter.acquire(tokens) answers true exactly when every
\* configured sub-limiter admits; when the bucket admits and the window
\* denies, the answer is false, the bucket stays charged with the tokens and
\* the window records nothing.
C18_AllMustAdmit ==
    \A k \in 1..Len(log) :
        IsAcquire(log[k]) =>
            LET e == log[k]
            IN /\ e.ok <=> /\ HasRpm(limiter) => BucketWouldAdmit(e.pre, e.t, e.n)
                           /\ HasTpm(limiter) => WindowWouldAdmit(e.pre, e.t)
               /\ BucketOnly(e) =>
                     /\ ~e.ok
                     /\ e.post.tokens = Have(e.pre, e.t) - e.n * SecondsPerMinute
                     /\ Len(e.post.requests) = Cardinality(InWindow(e.pre, e.t))

\* C18 witness: both limits set; an acquire at 0 is granted, the next one at
\* 40 finds the bucket refilled and the window still full: it is denied and
\* the token is gone.
C18_Witness ==
    /\ Len(log) = 2
    /\ log[1].op = "acquire" /\ log[1].ok /\ log[1].t = 0
    /\ log[2].op = "acquire" /\ ~log[2].ok /\ log[2].t = 40
    /\ BucketOnly(log[2])
    /\ Have(log[2].pre, 40) = SecondsPerMinute
    /\ tokens = 0
    /\ requests = <<0>>

\* sub-limiter op has admitted caller c
AdmittedBy(c, op) ==
    \E k \in 1..Len(log) : log[k].op = op /\ log[k].who = c /\ log[k].ok

\* C19: wait_for_permission has returned to a caller only if every
\* configured sub-limiter has admitted that caller.
C19_ReturnsWhenAllAdmit ==
    \A c \in DOMAIN callers :
        (callers[c].op = "wait_for_permission" /\ callers[c].st = "returned") =>
            /\ HasRpm(limiter) => AdmittedBy(c, "wait_for_token")
            /\ HasTpm(limiter) => AdmittedBy(c, "wait_for_slot")

\* C19 witness: the first caller has returned, admitted by both; the second
\* has been admitted and charged by the bucket while its window waiter
\* sleeps, so it has not returned.
C19_Witness ==
    /\ HasRpm(limiter) /\ HasTpm(limiter)
    /\ callers[1].op = "wait_for_permission" /\ callers[1].st = "returned"
    /\ callers[2].op = "wait_for_permission" /\ callers[2].st = "waiting"
    /\ callers[2].rpm = "done" /\ callers[2].tpm = "sleep"
    /\ AdmittedBy(2, "wait_for_token")
    /\ ~AdmittedBy(2, "wait_for_slot")
    /\ tokens = 0
    /\ now = 40

\* C20: on a limiter built with enabled = false, whatever its limits, there
\* is no sub-limiter, every acquire answers true, no caller waits, no
\* caller gets RateLimitError and the limiter's fields never change.
C20_DisabledIsNoOp ==
    Disabled(limiter) =>
        /\ ~HasRpm(limiter) /\ ~HasTpm(limiter)
        /\ \A k \in 1..Len(log) : log[k].ok /\ log[k].post = log[k].pre
        /\ \A c \in DOMAIN callers : callers[c].st \in {"idle", "returned"}
        /\ tokens = limiter.burst_size * SecondsPerMinute
        /\ last_update = 0
        /\ requests = <<>>

\* C20 witness: a disabled limiter with both limits set; with_rate_limit in
\* raising mode and wait_for_permission have both returned, each asking for
\* more tokens than the burst size, at different times.
C20_Witness ==
    /\ Disabled(limiter)
    /\ limiter.rpm_limit > 0 /\ limiter.tpm_limit > 0
    /\ callers[1].op = "with_rate_limit" /\ callers[1].st = "returned"
    /\ callers[1].n > limiter.burst_size
    /\ callers[2].op = "wait_for_permission" /\ callers[2].st = "returned"
    /\ callers[2].n > limiter.burst_size
    /\ Len(log) = 1 /\ log[1].t = 0
    /\ now = 20


\* the call of with_rate_limit that caller c has logged
GuardCall(c) ==
    log[CHOOSE k \in 1..Len(log) : log[k].op = "with_rate_limit" /\ log[k].who = c]

\* every configured sub-limiter would admit call e
AllWouldAdmit(e) ==
    /\ HasRpm(limiter) => BucketWouldAdmit(e.pre, e.t, e.n)
    /\ HasTpm(limiter) => WindowWouldAdmit(e.pre, e.t)

\* C21: with raise_on_limit = true, with_rate_limit never waits and raises
\* RateLimitError exactly when the limiter denies at that instant, with the
\* limiter's statistics as they are right after the denial; with
\* raise_on_limit = false it never raises and has returned only if every
\* configured sub-limiter has admitted the caller.
C21_GuardModes ==
    \A c \in DOMAIN callers :
        callers[c].op = "with_rate_limit" =>
            IF callers[c].raise_on_limit
            THEN /\ callers[c].st \in {"returned", "raised"}
                 /\ callers[c].st = "raised" <=> ~AllWouldAdmit(GuardCall(c))
                 /\ callers[c].st = "raised" =>
                       LET e == GuardCall(c)
                           got == callers[c].error.stats
                       IN /\ callers[c].error.cls = "RateLimitError"
                          /\ HasRpm(limiter) =>
                                /\ got.rpm.rpm_bucket_size = limiter.burst_size
                                /\ got.rpm.rpm_available_tokens * SecondsPerMinute
                                       <= e.post.tokens * 100 + SecondsPerMinute \div 2
                                /\ got.rpm.rpm_available_tokens * SecondsPerMinute
                                       > e.post.tokens * 100 - SecondsPerMinute \div 2
                          /\ HasTpm(limiter) =>
                                /\ got.tpm.tpm_limit = limiter.tpm_limit
                                /\ got.tpm.tpm_current_requests = Len(e.post.requests)
            ELSE /\ callers[c].st # "raised"
                 /\ callers[c].error = Null
                 /\ callers[c].st = "returned" =>
                       /\ HasRpm(limiter) => AdmittedBy(c, "wait_for_token")
                       /\ HasTpm(limiter) => AdmittedBy(c, "wait_for_slot")

\* C21 witness: both limits set; the first caller, in waiting mode, has
\* returned; the second, in raising mode at time 20, got RateLimitError whose
\* statistics show two thirds of a token and one request in the window.
C21_Witness ==
    /\ HasRpm(limiter) /\ HasTpm(limiter)
    /\ callers[1].op = "with_rate_limit" /\ ~callers[1].raise_on_limit
    /\ callers[1].st = "returned"
    /\ callers[2].op = "with_rate_limit" /\ callers[2].raise_on_limit
    /\ callers[2].st = "raised"
    /\ GuardCall(2).t = 20
    /\ callers[2].error.stats.rpm.rpm_available_tokens = 67
    /\ callers[2].error.stats.tpm.tpm_current_requests = 1


\* C22: a blocking wait never raises and, as time advances, returns: a waiter
\* that an attempt has sent to sleep is short of tokens that the passing of
\* time still adds, so the bucket it waits on is below its capacity.
C22_WaitReturns ==
    \A c \in DOMAIN callers :
        callers[c].op = "wait_for_permission" =>
            /\ callers[c].st # "raised"
            /\ callers[c].rpm = "sleep" =>
                  tokens < limiter.burst_size * SecondsPerMinute


\* the admissions a window has granted within the WindowSeconds before now
Admissions(reqs) == { m \in 1..Len(reqs) : reqs[m] > now - WindowSeconds }

\* C23: within one analysis run the extraction calls and the integration call
\* are admitted against one shared budget: with a request limit per window
\* configured, the admissions granted to all of them within one window are
\* never more than that limit.
C23_SharedBudget ==
    (HasTpm(limiter) /\ integration.pc # "none") =>
        Cardinality(Admissions(requests)) + Cardinality(Admissions(integration.requests))
            <= limiter.tpm_limit


\* ---- LogChunker
\* the chunks chunk_log has put into its result
Returned == chunking.pc = "returned"
ResultChunks == IF Returned THEN chunking.result.chunks ELSE <<>>

\* log_content[a:b] as Python slices
ClipIndex(x, len) ==
    IF x < 0 THEN (IF x + len > 0 THEN x + len ELSE 0)
    ELSE IF x > len THEN len ELSE x

PySlice(text, a, b) ==
    SubSeq(text, ClipIndex(a, Len(text)) + 1, ClipIndex(b, Len(text)))

\* the keys chunk_log gives every chunk
PlainKeys == {"source", "chunk_number", "chunk_strategy"}

\* the metadata of chunk c says more than that
FallbackFlagged(c) == DOMAIN c.metadata \ PlainKeys # {}

\* the search for the k-th piece found nothing
FellBack(k) == chunking.searched[k].found = -1

\* C24: chunk_log on the empty text returns no chunk, total_size = 0 and
\* original_log_size = 0 and raises nothing, for every strategy and every
\* chunk_size and overlap a LogChunker can be built with, whatever the
\* metadata argument.
C24_EmptyText ==
    (/\ chunking.pc \notin {"none", "new", "built"}
     /\ chunking.log_content = <<>>
     /\ ~SplitterRejects(chunking.chunk_size, chunking.chunk_overlap)) =>
        /\ chunking.pc = "returned"
        /\ chunking.error = Null
        /\ chunking.result.chunks = <<>>
        /\ chunking.result.total_size = 0
        /\ chunking.result.original_log_size = 0

\* C24 witness: the line-based chunker with overlap = chunk_size and a
\* metadata argument that is no mapping has returned for the empty text.
C24_Witness ==
    /\ Returned
    /\ chunking.log_content = <<>>
    /\ chunking.strategy = "line_based"
    /\ chunking.chunk_overlap = chunking.chunk_size
    /\ chunking.metadata = "list"
    /\ chunking.result.chunks = <<>>

\* C25: under the default and the line-based strategy every chunk is the slice
\* text[start_index:end_index] of the text, unless its metadata carries the
\* fallback flag.
C25_SliceOrFlag ==
    chunking.strategy \in {"recursive", "line_based"} =>
        \A k \in 1..Len(ResultChunks) :
            \/ PySlice(chunking.log_content, ResultChunks[k].start_index,
                       ResultChunks[k].end_index) = ResultChunks[k].content
            \/ FallbackFlagged(ResultChunks[k])

\* C26: a chunk that was placed at the cursor because the forward search found
\* nothing says so in its metadata.
C26_FallbackRecorded ==
    \A k \in 1..Len(ResultChunks) :
        FellBack(k) => FallbackFlagged(ResultChunks[k])

\* C27: every chunk has 0 <= start_index < end_index <= len(text).
C27_IndexesInText ==
    \A k \in 1..Len(ResultChunks) :
        /\ 0 <= ResultChunks[k].start_index
        /\ ResultChunks[k].start_index < ResultChunks[k].end_index
        /\ ResultChunks[k].end_index <= Len(chunking.log_content)

\* C28: for every strategy, each chunk's content is at most chunk_size long
\* and original_log_size is the length of the text.
C28_SizeBound ==
    Returned =>
        /\ \A k \in 1..Len(ResultChunks) :
              Len(ResultChunks[k].content) <= chunking.chunk_size
        /\ chunking.result.original_log_size = Len(chunking.log_content)

\* C29: a failure of chunking, malformed parameters such as
\* overlap >= chunk_size included, surfaces as one ChunkingError that carries
\* the length of the text and the cause; nothing else escapes and no chunk
\* set is returned then.
C29_SingleChunkingError ==
    /\ chunking.pc = "raised" =>
          /\ chunking.error.cls = "ChunkingError"
          /\ chunking.error.cause # Null
          /\ "text_length" \in DOMAIN chunking.error.details
    /\ Returned => chunking.chunk_overlap < chunking.chunk_size

\* what chunk k adds to the text covered by the chunks before it
RECURSIVE Covered(_)
Covered(k) ==
    IF k = 0 THEN 0
    ELSE IF ResultChunks[k].end_index > Covered(k - 1)
         THEN ResultChunks[k].end_index ELSE Covered(k - 1)

NewPortion(k) ==
    LET c == ResultChunks[k]
        skip == IF Covered(k - 1) > c.start_index
                THEN Covered(k - 1) - c.start_index ELSE 0
    IN SubSeq(c.content, skip + 1, Len(c.content))

RECURSIVE Portions(_)
Portions(k) == IF k = 0 THEN <<>> ELSE Portions(k - 1) \o NewPortion(k)

\* C30: for the line-based strategy the portions of the chunks that do not
\* overlap the chunk before, put together in order, are the text.
C30_Coverage ==
    (Returned /\ chunking.strategy = "line_based") =>
        Portions(Len(ResultChunks)) = chunking.log_content


\* ---- extract_from_chunks, the steps of one chunk
\* the positions in events of the events of chunk i with one of the statuses
EventsOf(i, statuses) ==
    { k \in 1..Len(events) :
         events[k].chunk_id = chunks[i + 1].id /\ events[k].status \in statuses }

\* the steps a task may take
ChunkSteps ==
    { <<"pending", "waiting">>, <<"pending", "inflight">>,
      <<"waiting", "inflight">>,
      <<"inflight", "completed">>, <<"inflight", "failed">> }

\* C31: for every chunk the steps come in the order "processing" event,
\* permission of the rate limiter, call of the per-chunk operation, terminal
\* state, each at most once: the operation is called only in a step that
\* leaves both waits done, a wait gets done only in a step in which its
\* sub-limiter admits, the "processing" event is there as soon as the chunk
\* has left "pending", and a terminal chunk stays as it is.
C31_StepOrder ==
    [][\A i \in Indexes :
          /\ pc'[i] # pc[i] => <<pc[i], pc'[i]>> \in ChunkSteps
          /\ pc[i] \in Terminal => pc'[i] = pc[i] /\ calls'[i] = calls[i]
          /\ calls'[i] # calls[i] =>
                /\ calls[i] = 0 /\ calls'[i] = 1
                /\ pc'[i] = "inflight"
                /\ rpmWait'[i] = "done" /\ tpmWait'[i] = "done"
          /\ (pc'[i] \in Terminal /\ pc[i] \notin Terminal) => calls[i] = 1
          /\ (HasRpm(limiter) /\ rpmWait[i] # "done" /\ rpmWait'[i] = "done") =>
                /\ pc[i] = "waiting" /\ calls[i] = 0
                /\ tokens' >= 0
                /\ tokens' = Min(limiter.burst_size * SecondsPerMinute,
                                 tokens + (now - last_update) * limiter.rpm_limit)
                             - ExtractTokens * SecondsPerMinute
          /\ (HasTpm(limiter) /\ tpmWait[i] # "done" /\ tpmWait'[i] = "done") =>
                /\ pc[i] = "waiting" /\ calls[i] = 0
                /\ Len(requests') <= limiter.tpm_limit
                /\ requests'[Len(requests')] = now
          /\ progress_callback =>
                LET started == EventsOf(i, {"processing"})'
                    ended == EventsOf(i, {"completed", "failed"})'
                IN /\ Cardinality(started) = IF pc'[i] = "pending" THEN 0 ELSE 1
                   /\ Cardinality(ended) = IF pc'[i] \in Terminal THEN 1 ELSE 0
                   /\ \A k \in started : \A m \in ended : k < m
      ]_vars

\* C31 witness: with both limits set, the second chunk had to wait for the
\* window to move on, was then admitted, called and completed; its
\* "processing" event came before the first chunk's terminal event.
C31_Witness ==
    /\ progress_callback
    /\ HasRpm(limiter) /\ HasTpm(limiter)
    /\ Len(chunks) = 2
    /\ pc[0] = "failed" /\ pc[1] = "completed"
    /\ calls[1] = 1
    /\ now > 0
    /\ \E k \in EventsOf(1, {"processing"}) : \E m \in EventsOf(0, {"failed"}) : k < m


\* ---- the sub-limiters under concurrent callers
\* the calls that go through TokenBucket.acquire, through SlidingWindow.acquire
OnBucket(e) == e.op \in {"acquire", "with_rate_limit", "wait_for_token"}
OnWindow(e) == e.op \in {"acquire", "with_rate_limit", "wait_for_slot"}

\* what call e took out of the bucket (times SecondsPerMinute)
Consumed(e) == IF OnBucket(e) THEN Have(e.pre, e.t) - e.post.tokens ELSE 0

RECURSIVE ConsumedUpTo(_)
ConsumedUpTo(k) == IF k = 0 THEN 0 ELSE ConsumedUpTo(k - 1) + Consumed(log[k])

\* call e took a slot of the window
TookSlot(e) ==
    /\ OnWindow(e)
    /\ Len(e.post.requests) = Cardinality(InWindow(e.pre, e.t)) + 1
    /\ e.post.requests[Len(e.post.requests)] = e.t

\* C32: under every interleaving of acquire and wait calls of concurrent
\* callers no token and no slot is handed out twice: a call takes from the
\* bucket either nothing or exactly what it asked for, only if that much was
\* there, and an admitted call has taken it; all that was ever taken is at
\* most the capacity plus the refill up to now; an admitted call has taken a
\* slot, and the slots taken within any window are at most the limit.
C32_NoDoubleSpend ==
    /\ HasRpm(limiter) =>
          /\ tokens >= 0
          /\ \A k \in 1..Len(log) :
                LET taken == Consumed(log[k])
                    asked == log[k].n * SecondsPerMinute
                IN /\ taken \in {0, asked}
                   /\ taken > 0 => Have(log[k].pre, log[k].t) >= asked
                   /\ (OnBucket(log[k]) /\ log[k].ok) => taken = asked
          /\ ConsumedUpTo(Len(log))
                <= limiter.burst_size * SecondsPerMinute + now * limiter.rpm_limit
    /\ HasTpm(limiter) =>
          LET slots == {m \in 1..Len(log) : TookSlot(log[m])}
          IN \A k \in 1..Len(log) :
                /\ (OnWindow(log[k]) /\ log[k].ok) => k \in slots
                /\ Cardinality({ m \in slots : /\ m <= k
                                               /\ log[m].t > log[k].t - WindowSeconds })
                       <= limiter.tpm_limit

\* C32 witness: two callers wait on the bucket at the same time; the second
\* was admitted at once while the first, which had asked for more than was
\* left, slept, and the first was admitted later.
C32_Witness ==
    /\ HasRpm(limiter)
    /\ Len(log) = 2
    /\ log[1].op = "wait_for_token" /\ log[1].who = 2 /\ log[1].t = 0
    /\ log[2].op = "wait_for_token" /\ log[2].who = 1 /\ log[2].t > 0
    /\ callers[1].st = "returned" /\ callers[2].st = "returned"


\* the timestamps of pre that a call at time t does not evict
KeptRequests(pre, t) == SelectSeq(pre.requests, LAMBDA stamp : stamp > t - WindowSeconds)

\* call e asks the window: there is one, and the bucket, if any, admitted
AsksWindow(e) ==
    HasTpm(limiter) /\ (HasRpm(limiter) => BucketWouldAdmit(e.pre, e.t, e.n))

\* C33: an acquire that the bucket denies deducts nothing and does not wait:
\* it leaves min(burst, count before + refill for the elapsed time) tokens
\* and the caller has its answer at once; an acquire that the window denies
\* adds no timestamp to the queue.
C33_DenialLeavesState ==
    \A k \in 1..Len(log) :
        IsAcquire(log[k]) =>
            /\ callers[log[k].who].st \in {"returned", "raised"}
            /\ (HasRpm(limiter) /\ ~BucketWouldAdmit(log[k].pre, log[k].t, log[k].n)) =>
                  /\ ~log[k].ok
                  /\ log[k].post.tokens = Have(log[k].pre, log[k].t)
                  /\ log[k].post.last_update = log[k].t
                  /\ log[k].post.requests = log[k].pre.requests
            /\ (AsksWindow(log[k]) /\ ~WindowWouldAdmit(log[k].pre, log[k].t)) =>
                  /\ ~log[k].ok
                  /\ log[k].post.requests = KeptRequests(log[k].pre, log[k].t)

\* C33 witness: the bucket was emptied at time 0; a second acquire at time 20
\* was denied and left the 2/3 token refilled by then.
C33_Witness ==
    /\ HasRpm(limiter)
    /\ Len(log) = 2
    /\ log[1].op = "acquire" /\ log[1].ok /\ log[1].t = 0
    /\ log[2].op = "acquire" /\ ~log[2].ok /\ log[2].t = 20
    /\ log[2].post.tokens = 40
    /\ tokens = 40


\* ---- LogChunker, the cursor
\* C34: for every chunk after the first the search starts at the end_index of
\* the chunk before minus the overlap, so that a piece which occurs in the
\* text from there on is found.
C34_SearchFromOverlap ==
    \A k \in 2..Len(chunking.chunks) :
        LET from == chunking.chunks[k - 1].end_index - chunking.chunk_overlap
        IN /\ chunking.searched[k].from = from
           /\ (\E p \in 0..Len(chunking.log_content) :
                  /\ p >= from
                  /\ OccursAt(chunking.log_content, chunking.chunks[k].content, p))
                 => ~FellBack(k)


\* ---- TokenBucket, the range of the token count
\* C35: whatever acquire and wait_for_token calls are made, by whatever
\* callers and at whatever times, the token count of the bucket stays within
\* 0 and the capacity, after every call and in every state.
C35_TokensInRange ==
    HasRpm(limiter) =>
        /\ 0 <= tokens /\ tokens <= limiter.burst_size * SecondsPerMinute
        /\ \A k \in 1..Len(log) :
              /\ 0 <= log[k].post.tokens
              /\ log[k].post.tokens <= limiter.burst_size * SecondsPerMinute

\* C35 witness: a wait_for_token emptied the bucket, and a later acquire,
\* denied for asking more than the capacity, found it refilled to the brim
\* after more time than the refill needs.
C35_Witness ==
    /\ HasRpm(limiter)
    /\ Len(log) = 2
    /\ log[1].op = "wait_for_token" /\ log[1].post.tokens = 0
    /\ log[2].op = "acquire" /\ ~log[2].ok /\ log[2].t - log[1].t > 30
    /\ tokens = limiter.burst_size * SecondsPerMinute


\* ---- wait_for_token with more tokens than the bucket holds
\* caller c waits, or has waited, on the bucket for more than its capacity
AsksTooMuch(c) ==
    /\ HasRpm(limiter)
    /\ callers[c].op \in {"wait_for_permission", "with_rate_limit"}
    /\ ~callers[c].raise_on_limit
    /\ callers[c].n > limiter.burst_size

\* C36: wait_for_token(n) returns only for n <= burst: a caller that asks for
\* more than the capacity is never admitted by the bucket and never returns,
\* however far the clock has moved; and every admission by the bucket is for
\* at most the capacity.
C36_TooMuchNeverReturns ==
    /\ \A c \in DOMAIN callers :
          AsksTooMuch(c) =>
              /\ callers[c].st = "waiting"
              /\ callers[c].rpm \in {"try", "sleep"}
              /\ ~AdmittedBy(c, "wait_for_token")
    /\ \A k \in 1..Len(log) :
          (HasRpm(limiter) /\ log[k].op = "wait_for_token") =>
              log[k].n <= limiter.burst_size

\* C36 witness: the integration call's 2 tokens against a capacity of 1: the
\* waiter has just been denied with the bucket full, after more time than a
\* full refill takes.
C36_Witness ==
    /\ AsksTooMuch(1)
    /\ callers[1].n = IntegrateTokens /\ limiter.burst_size = 1
    /\ callers[1].rpm = "sleep"
    /\ tokens = limiter.burst_size * SecondsPerMinute
    /\ last_update = now
    /\ now > SecondsPerMinute


\* ---- extract_from_chunks, termination
\* the tasks that hold a slot of the semaphore
Holding == {i \in Indexes : pc[i] \in {"waiting", "inflight"}}

\* a task waits on the rate limiter and the clock of the model has run out
ClockRanOut == ~(now + TickStep <= MaxTime) /\ \E i \in Indexes : pc[i] = "waiting"

\* C37: with max_concurrency >= 1 the batch terminates (unless a task is
\* still waiting for the rate limiter when the clock stops); the slots handed
\* out and the free ones always add up to max_concurrency, so a slot taken
\* comes back on success and on failure; with max_concurrency = 0 no chunk
\* ever starts and the batch never terminates.
C37_Termination ==
    /\ (max_concurrency >= 1) => <>(BatchOver \/ ClockRanOut)
    /\ [](batch = "running" => semaphore + Cardinality(Holding) = max_concurrency)
    /\ []((max_concurrency = 0 /\ chunks # <<>> /\ batch # "idle") =>
             /\ batch = "running"
             /\ \A i \in Indexes : pc[i] = "pending")

\* C37 witness: one slot, two chunks, both limits set: the first chunk
\* failed, the slot went to the second, and the batch is over.
C37_Witness ==
    /\ BatchOver
    /\ max_concurrency = 1
    /\ Len(chunks) = 2
    /\ HasRpm(limiter) /\ HasTpm(limiter)
    /\ doneOrder = <<0, 1>>
    /\ pc[0] = "failed" /\ pc[1] = "completed"
    /\ semaphore = 1


\* ---- the progress events of a batch
\* chunk i is listed in the aggregate ExtractionError
ListedInError(i) ==
    /\ batch = "raised"
    /\ \E k \in 1..Len(outcome.details) : outcome.details[k][2] = chunks[i + 1].id

AdmissionsOf(c, op) == {k \in 1..Len(log) : log[k].who = c /\ log[k].op = op}

\* caller c's wait_for_permission, called directly or by with_rate_limit, has
\* returned
Waited(c) ==
    /\ callers[c].op \in {"wait_for_permission", "with_rate_limit"}
    /\ ~callers[c].raise_on_limit
    /\ callers[c].st = "returned"

\* the tokens the callers 1..c have asked for
RECURSIVE AskedUpTo(_)
AskedUpTo(c) == IF c = 0 THEN 0 ELSE AskedUpTo(c - 1) + callers[c].n

\* the fields as they are now
Current == Snapshot(tokens, last_update, requests)

\* between two calls of the log, and after the last one, the bucket has only
\* been refilled and the window has only lost expired timestamps: a denied
\* attempt of a waiter has charged nothing
OnlyLoggedCharges ==
    /\ HasRpm(limiter) =>
          /\ \A k \in 1..Len(log) :
                Have(log[k].pre, log[k].t)
                   = IF k = 1 THEN limiter.burst_size * SecondsPerMinute
                              ELSE Have(log[k - 1].post, log[k].t)
          /\ Len(log) > 0 => Have(Current, now) = Have(log[Len(log)].post, now)
    /\ HasTpm(limiter) =>
          /\ \A k \in 1..Len(log) :
                KeptRequests(log[k].pre, log[k].t)
                   = IF k = 1 THEN <<>> ELSE KeptRequests(log[k - 1].post, log[k].t)
          /\ Len(log) > 0 =>
                KeptRequests(Current, now) = KeptRequests(log[Len(log)].post, now)

\* C39: a wait_for_permission(n) that has returned has charged the limiter
\* once: its bucket waiter was admitted once and took n tokens, its window
\* waiter was admitted once and added one timestamp, and its denied attempts
\* took nothing; so N callers that have all returned, as the N chunks of a
\* batch do whether their extraction succeeds or fails afterwards, have taken
\* what they asked for (N tokens for one each) and added N timestamps.
C39_ChargedOnce ==
    /\ OnlyLoggedCharges
    /\ \A c \in Callers :
          Waited(c) =>
              /\ HasRpm(limiter) =>
                    /\ Cardinality(AdmissionsOf(c, "wait_for_token")) = 1
                    /\ \A k \in AdmissionsOf(c, "wait_for_token") :
                          /\ log[k].n = callers[c].n
                          /\ Consumed(log[k]) = callers[c].n * SecondsPerMinute
              /\ HasTpm(limiter) =>
                    /\ Cardinality(AdmissionsOf(c, "wait_for_slot")) = 1
                    /\ \A k \in AdmissionsOf(c, "wait_for_slot") : TookSlot(log[k])
    /\ (\A c \in Callers : Waited(c)) =>
          /\ HasRpm(limiter) =>
                ConsumedUpTo(Len(log)) = AskedUpTo(MaxCallers) * SecondsPerMinute
          /\ HasTpm(limiter) =>
                Cardinality({k \in 1..Len(log) : TookSlot(log[k])}) = MaxCallers

\* C39 witness: every caller has waited for one token, as the chunks of a
\* batch do, on a limiter with both sub-limiters; the last admission came
\* after a denied attempt and a sleep.
C39_Witness ==
    /\ HasRpm(limiter) /\ HasTpm(limiter)
    /\ \A c \in Callers : Waited(c) /\ callers[c].n = ExtractTokens
    /\ Len(log) = 2 * MaxCallers
    /\ log[Len(log)].t > 0
    /\ ConsumedUpTo(Len(log)) = MaxCallers * SecondsPerMinute


\* ---- extract_with_semaphore, what happens inside the slot
\* task i is waiting on a sub-limiter, in an attempt or asleep
OnLimiter(i) == rpmWait[i] \in {"try", "sleep"} \/ tpmWait[i] \in {"try", "sleep"}

\* C40: a chunk holds its slot from before its "processing" event until it
\* has completed or failed, the wait on the rate limiter included: the chunks
\* waiting for permission or in flight are at most max_concurrency and, while
\* the batch runs, exactly the slots taken; a chunk waiting on a sub-limiter
\* holds a slot; a chunk that has emitted an event and is not terminal holds
\* one; and a chunk that has not got a slot yet has emitted no event, made no
\* rate-limiter call and no call of the chain.
C40_SlotHeldThroughout ==
    /\ Cardinality(Holding) <= max_concurrency
    /\ batch = "running" => semaphore = max_concurrency - Cardinality(Holding)
    /\ \A i \in Indexes :
          /\ OnLimiter(i) => pc[i] = "waiting"
          /\ (EventsOf(i, {"processing"}) # {} /\ pc[i] \notin Terminal) => i \in Holding
          /\ pc[i] = "pending" =>
                /\ EventsOf(i, {"processing", "completed", "failed"}) = {}
                /\ rpmWait[i] = "idle" /\ tpmWait[i] = "idle"
                /\ calls[i] = 0

\* C40 witness: the only slot is held by the first chunk, which has emitted
\* its "processing" event, has its token and has not asked the window yet,
\* while the second chunk has done nothing yet.
C40_Witness ==
    /\ batch = "running" /\ progress_callback
    /\ max_concurrency = 1 /\ Len(chunks) = 2
    /\ pc[0] = "waiting" /\ rpmWait[0] = "done" /\ tpmWait[0] = "try"
    /\ pc[1] = "pending"
    /\ semaphore = 0
    /\ EventsOf(0, {"processing"}) # {}
    /\ Len(events) = 1

====
